---------------------------- MODULE Spec2Model ----------------------------
(***************************************************************************)
(* Todo Magic (custom_components/todo_magic/__init__.py): the repeat-token *)
(* parser, the occurrence calculator and the item reconciliation engine    *)
(* (new-item detection, recurrence completion scan) with its three         *)
(* process-wide guard sets, run as cooperative background tasks against a  *)
(* host todo list.                                                         *)
(*                                                                         *)
(* Text is modelled by its characters: a word is a tuple of one-character  *)
(* strings, a summary is the tuple of its whitespace-separated words.      *)
(***************************************************************************)
EXTENDS Integers, Sequences, FiniteSets, TLC

(***************************************************************************)
(* Bounds of the model.                                                    *)
(***************************************************************************)
\* longest text between the brackets of a repeat token drawn by SpecRepeat
MaxBody == 4

\* items of the list at start
MaxInit == 2

\* background tasks of each kind that can be in flight together
MaxTasks == 2

\* state-change events the host has raised and not yet delivered
MaxEvents == 1

\* faults in one behaviour: host service calls that fail, restarts of the process
MaxFaults == 1

\* things the user and the host do to the list in one behaviour
MaxUserOps == 1

\* day letters of a drawn weekday set, and the largest drawn interval
MaxDays == 2

MaxInterval == 3

\* consecutive dates drawn as today, as completion date and as due date
Window == 14

\* words of a drawn title
MaxWords == 3

(***************************************************************************)
(* Characters and numbers.                                                 *)
(***************************************************************************)
Digits == <<"0", "1", "2", "3", "4", "5", "6", "7", "8", "9">>

IsDigit(c) == \E i \in 1..10 : Digits[i] = c

DigitVal(c) == (CHOOSE i \in 1..10 : Digits[i] = c) - 1

\* int(s) for a non-empty string of digits
RECURSIVE StrToInt(_)
StrToInt(s) ==
    IF Len(s) = 0 THEN 0
    ELSE 10 * StrToInt(SubSeq(s, 1, Len(s) - 1)) + DigitVal(s[Len(s)])

\* str(n) for n >= 0
RECURSIVE IntToStr(_)
IntToStr(n) ==
    IF n < 10 THEN <<Digits[n + 1]>>
    ELSE IntToStr(n \div 10) \o <<Digits[(n % 10) + 1]>>

UpperCase == <<"A", "B", "C", "D", "E", "F", "G", "H", "I", "J", "K", "L", "M",
               "N", "O", "P", "Q", "R", "S", "T", "U", "V", "W", "X", "Y", "Z">>

LowerCase == <<"a", "b", "c", "d", "e", "f", "g", "h", "i", "j", "k", "l", "m",
               "n", "o", "p", "q", "r", "s", "t", "u", "v", "w", "x", "y", "z">>

\* str.lower() of one character
Lower(c) ==
    IF \E i \in 1..26 : UpperCase[i] = c
    THEN LowerCase[CHOOSE i \in 1..26 : UpperCase[i] = c]
    ELSE c

LowerStr(s) == [i \in 1..Len(s) |-> Lower(s[i])]

\* str.strip(): leading and trailing blanks removed
RECURSIVE Strip(_)
Strip(s) ==
    IF Len(s) = 0 THEN s
    ELSE IF s[1] = " " THEN Strip(Tail(s))
    ELSE IF s[Len(s)] = " " THEN Strip(SubSeq(s, 1, Len(s) - 1))
    ELSE s

\* the longest prefix of s made of digits
RECURSIVE DigitPrefixLen(_)
DigitPrefixLen(s) ==
    IF Len(s) = 0 \/ ~IsDigit(s[1]) THEN 0 ELSE 1 + DigitPrefixLen(Tail(s))

(***************************************************************************)
(* Repeat Rule Parser.                                                     *)
(***************************************************************************)
UnitLetters == {"d", "w", "m", "y"}

DayLetters == {"m", "t", "w", "r", "f", "s", "u"}

\* a day mapping with the letters of Tuesday and Thursday exchanged
day_mapping_exchanged(c) ==
    CASE c = "m" -> "mon"
      [] c = "t" -> "thu"
      [] c = "w" -> "wed"
      [] c = "r" -> "tue"
      [] c = "f" -> "fri"
      [] c = "s" -> "sat"
      [] c = "u" -> "sun"

\* day_mapping of parse_repeat_pattern
day_mapping(c) ==
    CASE c = "m" -> "mon"
      [] c = "t" -> "tue"
      [] c = "w" -> "wed"
      [] c = "r" -> "thu"
      [] c = "f" -> "fri"
      [] c = "s" -> "sat"
      [] c = "u" -> "sun"

\* day_chars of create_recurring_task
day_chars(d) ==
    CASE d = "mon" -> "m"
      [] d = "tue" -> "t"
      [] d = "wed" -> "w"
      [] d = "thu" -> "r"
      [] d = "fri" -> "f"
      [] d = "sat" -> "s"
      [] d = "sun" -> "u"

\* the value None of a repeat rule
NoRule == [type |-> "none", unit |-> "", interval |-> 0, days |-> <<>>]

\* a test that is content with one day letter among others
SomeDayLetter(s) == \E i \in 1..Len(s) : s[i] \in DayLetters

AllDayLetters(s) == Len(s) >= 1 /\ \A i \in 1..Len(s) : s[i] \in DayLetters

\* ^(\d+)([dwmy])$
IntervalMatch(p) ==
    LET n == DigitPrefixLen(p)
    IN  n >= 1 /\ Len(p) = n + 1 /\ p[n + 1] \in UnitLetters

\* ^(\d+)w-([mtwrfsu]+)$: the weekly pattern without its unnumbered form
NumberedWeeklyMatch(p) ==
    LET n == DigitPrefixLen(p)
    IN  /\ n >= 1
        /\ Len(p) >= n + 3
        /\ p[n + 1] = "w"
        /\ p[n + 2] = "-"
        /\ AllDayLetters(SubSeq(p, n + 3, Len(p)))

\* ^(?:(\d+)w|w)-([mtwrfsu]+)$
WeeklyMatch(p) ==
    LET n == DigitPrefixLen(p)
    IN  /\ Len(p) >= n + 3
        /\ p[n + 1] = "w"
        /\ p[n + 2] = "-"
        /\ AllDayLetters(SubSeq(p, n + 3, Len(p)))

\* days: the day of every character that is in day_mapping, in order
DaysOf(s) ==
    LET known == SelectSeq(s, LAMBDA c : c \in DayLetters)
    IN  [i \in 1..Len(known) |-> day_mapping(known[i])]

parse_repeat_pattern(pattern_string) ==
    IF Len(pattern_string) = 0
       \/ pattern_string[1] # "["
       \/ pattern_string[Len(pattern_string)] # "]"
    THEN NoRule
    ELSE
      LET pattern == Strip(LowerStr(SubSeq(pattern_string, 2, Len(pattern_string) - 1)))
          n == DigitPrefixLen(pattern)
      IN  IF Len(pattern) = 0 THEN NoRule
          ELSE IF Len(pattern) = 1 /\ pattern[1] \in UnitLetters
          THEN [type |-> "simple", unit |-> pattern[1], interval |-> 1, days |-> <<>>]
          ELSE IF IntervalMatch(pattern)
          THEN [type |-> "simple", unit |-> pattern[n + 1],
                interval |-> StrToInt(SubSeq(pattern, 1, n)), days |-> <<>>]
          ELSE IF WeeklyMatch(pattern)
          THEN [type |-> "advanced", unit |-> "w",
                interval |-> IF n = 0 THEN 1 ELSE StrToInt(SubSeq(pattern, 1, n)),
                days |-> DaysOf(SubSeq(pattern, n + 3, Len(pattern)))]
          ELSE IF AllDayLetters(pattern)
          THEN [type |-> "advanced", unit |-> "w", interval |-> 1,
                days |-> DaysOf(pattern)]
          ELSE NoRule

\* the repeat token create_recurring_task rebuilds from a rule
reconstruct_repeat_pattern(repeat_info) ==
    LET unit == repeat_info.unit
        interval == repeat_info.interval
        day_string == [i \in 1..Len(repeat_info.days) |-> day_chars(repeat_info.days[i])]
    IN  IF repeat_info.type = "simple"
        THEN IF interval = 1 THEN <<"[", unit, "]">>
             ELSE <<"[">> \o IntToStr(interval) \o <<unit, "]">>
        ELSE IF repeat_info.type = "advanced" /\ unit = "w"
        THEN IF interval = 1 THEN <<"[">> \o day_string \o <<"]">>
             ELSE <<"[">> \o IntToStr(interval) \o <<"w", "-">> \o day_string \o <<"]">>
        ELSE <<"[", unit, "]">>

(***************************************************************************)
(* datetime: a naive local date and time of day; timedelta arithmetic goes *)
(* through the day number of the proleptic Gregorian calendar.             *)
(***************************************************************************)
DateTime(y, m, d, hh, mi) == [year |-> y, month |-> m, day |-> d, hour |-> hh, minute |-> mi]

IsLeap(y) == (y % 4 = 0 /\ y % 100 # 0) \/ y % 400 = 0

DaysInMonth(y, m) ==
    IF m = 2 THEN (IF IsLeap(y) THEN 29 ELSE 28)
    ELSE IF m \in {4, 6, 9, 11} THEN 30 ELSE 31

\* days since 1970-01-01 of a civil date
DaysFromCivil(y, m, d) ==
    LET yy  == IF m <= 2 THEN y - 1 ELSE y
        era == yy \div 400
        yoe == yy - era * 400
        mp  == IF m > 2 THEN m - 3 ELSE m + 9
        doy == (153 * mp + 2) \div 5 + d - 1
        doe == yoe * 365 + yoe \div 4 - yoe \div 100 + doy
    IN  era * 146097 + doe - 719468

\* the civil date of a day number, at midnight
CivilFromDays(z) ==
    LET zz  == z + 719468
        era == zz \div 146097
        doe == zz - era * 146097
        yoe == (doe - doe \div 1460 + doe \div 36524 - doe \div 146096) \div 365
        doy == doe - (365 * yoe + yoe \div 4 - yoe \div 100)
        mp  == (5 * doy + 2) \div 153
        d   == doy - (153 * mp + 2) \div 5 + 1
        m   == IF mp < 10 THEN mp + 3 ELSE mp - 9
        y   == yoe + era * 400 + (IF m <= 2 THEN 1 ELSE 0)
    IN  DateTime(y, m, d, 0, 0)

DayNumber(dt) == DaysFromCivil(dt.year, dt.month, dt.day)

\* datetime.weekday(): Monday = 0 .. Sunday = 6
weekday(dt) == (DayNumber(dt) + 3) % 7

\* dt.replace(hour=0, minute=0, second=0, microsecond=0)
Midnight(dt) == [dt EXCEPT !.hour = 0, !.minute = 0]

\* dt + timedelta(days=n), the time of day kept
AddDays(dt, n) ==
    LET c == CivilFromDays(DayNumber(dt) + n)
    IN  [c EXCEPT !.hour = dt.hour, !.minute = dt.minute]

\* completion_date_only <= original_due_date_only
DateLeq(a, b) == DayNumber(a) <= DayNumber(b)

\* what a date computation yields: a datetime, None, or a raised ValueError
Some(dt) == [kind |-> "date", dt |-> dt]

NoDate == [kind |-> "none", dt |-> DateTime(0, 0, 0, 0, 0)]

Raised == [kind |-> "raise", dt |-> DateTime(0, 0, 0, 0, 0)]

(***************************************************************************)
(* Occurrence Calculator.                                                  *)
(***************************************************************************)
\* day_to_num of the occurrence calculator
day_to_num(d) ==
    CASE d = "mon" -> 0
      [] d = "tue" -> 1
      [] d = "wed" -> 2
      [] d = "thu" -> 3
      [] d = "fri" -> 4
      [] d = "sat" -> 5
      [] d = "sun" -> 6

\* the set of weekday numbers of a rule; the code sorts the list and only
\* takes its first element and its first element above a given weekday
target_weekdays(repeat_info) ==
    {day_to_num(repeat_info.days[i]) : i \in 1..Len(repeat_info.days)}

\* F of the value of v: v is computed once, as a local variable of the code is
ByValue(v, F(_)) == CHOOSE r \in {F(x) : x \in {v}} : TRUE

least(T) == CHOOSE x \in T : \A y \in T : x <= y

MinOf(S) == ByValue(S, least)

\* a first occurrence that never falls on today itself
first_occurrence_after_today(today, repeat_info) ==
    LET tw == target_weekdays(repeat_info)
        current_weekday == weekday(today)
        later == {w \in tw : w > current_weekday}
    IN  IF repeat_info.type # "advanced" \/ tw = {} THEN NoDate
        ELSE IF later # {}
        THEN Some(AddDays(today, MinOf(later) - current_weekday))
        ELSE Some(AddDays(today, 7 - current_weekday + MinOf(tw)))

calculate_first_occurrence(today, repeat_info) ==
    IF repeat_info.type \notin {"simple", "advanced"} THEN NoDate
    ELSE IF repeat_info.type = "simple"
    THEN IF repeat_info.unit \in {"d", "w", "m", "y"} THEN Some(today) ELSE NoDate
    ELSE IF repeat_info.unit = "w"
    THEN LET tw == target_weekdays(repeat_info)
             current_weekday == weekday(today)
             later == {w \in tw : w > current_weekday}
         IN  IF tw = {} THEN NoDate
             ELSE IF current_weekday \in tw THEN Some(today)
             ELSE IF later # {}
             THEN Some(AddDays(today, MinOf(later) - current_weekday))
             ELSE Some(AddDays(today, 7 - current_weekday + MinOf(tw)))
    ELSE NoDate

\* the last day of a month at 23:59
EndOfMonth(y, m) == DateTime(y, m, DaysInMonth(y, m), 23, 59)

\* the target month without the while loop that rolls the year
month_without_roll(y, m, interval) ==
    [year |-> y, month |-> ((m + interval - 1) % 12) + 1]

\* target month and year after adding interval months (the while loop)
MonthAfter(y, m, interval) ==
    LET t == m + interval
    IN  [year |-> y + (t - 1) \div 12, month |-> ((t - 1) % 12) + 1]

\* dt.replace(year=y): ValueError on 29 February of a non-leap year
ReplaceYear(dt, y) ==
    IF dt.day > DaysInMonth(y, dt.month) THEN Raised
    ELSE Some([dt EXCEPT !.year = y])

\* the due date moved on by the interval in weeks, whatever the rule's days
\* and the completion date
next_week_of_due(completion_date, original_due_date, repeat_info) ==
    Some(AddDays(Midnight(original_due_date), 7 * repeat_info.interval))

schedule_next_occurrence(completion_date, original_due_date, repeat_info) ==
    LET unit == repeat_info.unit
        interval == repeat_info.interval
        completion_date_only == Midnight(completion_date)
        original_due_date_only == Midnight(original_due_date)
        early == DateLeq(completion_date_only, original_due_date_only)
    IN
    IF repeat_info.type \notin {"simple", "advanced"} THEN NoDate
    ELSE IF repeat_info.type = "simple"
    THEN CASE unit = "d" -> Some(AddDays(completion_date_only, interval))
           [] unit = "w" -> Some(AddDays(completion_date_only, 7 * interval))
           [] unit = "m" ->
                LET anchor == IF early THEN original_due_date_only ELSE completion_date_only
                    t == MonthAfter(anchor.year, anchor.month, interval)
                IN  Some(EndOfMonth(t.year, t.month))
           [] unit = "y" ->
                LET anchor == IF early THEN original_due_date_only ELSE completion_date_only
                IN  ReplaceYear(anchor, anchor.year + interval)
           [] OTHER -> NoDate
    ELSE IF unit = "w"
    THEN LET tw == target_weekdays(repeat_info)
             completion_weekday == weekday(completion_date_only)
             original_due_weekday == weekday(original_due_date_only)
             \* both branches look for the next day after the original due day
             later == {w \in tw : w > original_due_weekday}
             days_ahead == MinOf(later) - completion_weekday
             days_to_next == MinOf(later) - completion_weekday
             days_to_next_cycle ==
                 7 - completion_weekday + MinOf(tw) + (interval - 1) * 7
         IN  IF tw = {} THEN NoDate
             ELSE IF early
             THEN IF later # {}
                  THEN Some(AddDays(completion_date_only,
                            IF days_ahead <= 0
                            THEN days_ahead + 7 + (interval - 1) * 7
                            ELSE days_ahead))
                  ELSE Some(AddDays(completion_date_only, days_to_next_cycle))
             ELSE IF later # {}
                  THEN Some(AddDays(completion_date_only,
                            IF days_to_next <= 0
                            THEN days_to_next + 7 + (interval - 1) * 7
                            ELSE days_to_next))
                  ELSE Some(AddDays(completion_date_only, days_to_next_cycle))
    ELSE NoDate

(***************************************************************************)
(* Format Matchers.  A string is a tuple of characters; words are joined   *)
(* by single blanks and split at blanks.                                   *)
(***************************************************************************)
\* datetime.now() truncated to midnight: Tuesday 2025-06-17
Today == DateTime(2025, 6, 17, 0, 0)

RECURSIVE Join(_)
Join(words) ==
    IF Len(words) = 0 THEN <<>>
    ELSE IF Len(words) = 1 THEN words[1]
    ELSE words[1] \o <<" ">> \o Join(Tail(words))

\* str.split(): the maximal runs of non-blank characters
RECURSIVE Split(_)
Split(s) ==
    IF Len(s) = 0 THEN <<>>
    ELSE IF s[1] = " " THEN Split(Tail(s))
    ELSE LET n == CHOOSE k \in 1..Len(s) :
                    /\ \A i \in 1..k : s[i] # " "
                    /\ (k = Len(s) \/ s[k + 1] = " ")
         IN  <<SubSeq(s, 1, n)>> \o Split(SubSeq(s, n + 1, Len(s)))

AllDigits(s) == Len(s) >= 1 /\ \A i \in 1..Len(s) : IsDigit(s[i])

\* s has the literal lit at position i
HasAt(s, i, lit) ==
    /\ i >= 1
    /\ i + Len(lit) - 1 <= Len(s)
    /\ \A k \in 1..Len(lit) : s[i + k - 1] = lit[k]

\* the first position from i on that holds no blank (Len(s) + 1 if none)
SkipSpaces(s, i) ==
    CHOOSE j \in i..(Len(s) + 1) :
        /\ \A k \in i..(j - 1) : s[k] = " "
        /\ (j = Len(s) + 1 \/ s[j] # " ")

\* the first position from i on that holds no digit (Len(s) + 1 if none)
SkipDigits(s, i) ==
    CHOOSE j \in i..(Len(s) + 1) :
        /\ \A k \in i..(j - 1) : IsDigit(s[k])
        /\ (j = Len(s) + 1 \/ ~IsDigit(s[j]))

\* (\d+)\s*(days?|weeks?|months?|years?|[dwmy]) matches at position i
DurationAt(s, i) ==
    /\ i >= 1 /\ i <= Len(s) /\ IsDigit(s[i])
    /\ LET k == SkipSpaces(s, SkipDigits(s, i))
       IN  k <= Len(s) /\ s[k] \in UnitLetters

\* re.search of the duration pattern: the leftmost start of a match, 0 if none
DurationStart(s) ==
    IF \E i \in 1..Len(s) : DurationAt(s, i)
    THEN CHOOSE i \in 1..Len(s) :
            DurationAt(s, i) /\ \A j \in 1..(i - 1) : ~DurationAt(s, j)
    ELSE 0

\* today + timedelta(days=n): OverflowError once the year passes 9999
TodayPlus(n) ==
    IF DayNumber(Today) + n > DaysFromCivil(9999, 12, 31) THEN Raised
    ELSE Some(AddDays(Today, n))

parse_natural_language_date(given_string) ==
    LET low == LowerStr(given_string)
        i == DurationStart(low)
        j == SkipDigits(low, i)
        amount == StrToInt(SubSeq(low, i, j - 1))
        unit == low[SkipSpaces(low, j)]
    IN  IF low = <<"t", "o", "d", "a", "y">> THEN Some(Today)
        ELSE IF low = <<"t", "o", "m", "o", "r", "r", "o", "w">> THEN Some(AddDays(Today, 1))
        ELSE IF i = 0 THEN NoDate
        ELSE CASE unit = "d" -> TodayPlus(amount)
               [] unit = "w" -> TodayPlus(7 * amount)
               [] unit = "m" -> TodayPlus(amount * 30)
               [] unit = "y" -> TodayPlus(amount * 365)

\* the strptime directives %m %d %y %Y %H %M on a whole field
FieldOk(f, field) ==
    /\ AllDigits(field)
    /\ CASE f = "m" -> Len(field) <= 2 /\ StrToInt(field) \in 1..12
         [] f = "d" -> Len(field) <= 2 /\ StrToInt(field) \in 1..31
         [] f = "y" -> Len(field) = 2
         [] f = "Y" -> Len(field) = 4
         [] f = "H" -> Len(field) <= 2 /\ StrToInt(field) \in 0..23
         [] f = "M" -> Len(field) <= 2 /\ StrToInt(field) \in 0..59

\* %y: 69..99 are 19xx, 00..68 are 20xx
YearOf(f, field) ==
    IF f = "Y" THEN StrToInt(field)
    ELSE IF StrToInt(field) >= 69 THEN 1900 + StrToInt(field)
    ELSE 2000 + StrToInt(field)

\* date_formats of check_date_format, in order: <<separator, directives>>
date_formats ==
    << <<"/", "m", "d", "y">>, <<"/", "m", "d", "Y">>, <<"-", "m", "d", "y">>,
       <<"-", "m", "d", "Y">>, <<"-", "Y", "m", "d">>, <<"/", "Y", "m", "d">>,
       <<".", "Y", "m", "d">>, <<"-", "d", "m", "Y">>, <<"/", "d", "m", "Y">>,
       <<".", "d", "m", "Y">>, <<"-", "m", "d", "Y">>, <<"/", "m", "d", "Y">>,
       <<".", "m", "d", "Y">>, <<"-", "Y", "d", "m">>, <<"/", "Y", "d", "m">>,
       <<".", "Y", "d", "m">>, <<"-", "d", "Y", "m">>, <<"/", "d", "Y", "m">>,
       <<".", "d", "Y", "m">>, <<"-", "m", "Y", "d">>, <<"/", "m", "Y", "d">>,
       <<".", "m", "Y", "d">> >>

\* the three fields of s around two separators sep, <<>> if s has another shape
ThreeFields(s, sep) ==
    LET P == {i \in 1..Len(s) : s[i] = sep}
    IN  IF Cardinality(P) # 2 THEN <<>>
        ELSE LET a == MinOf(P)
                 b == CHOOSE x \in P : x # a
             IN  <<SubSeq(s, 1, a - 1), SubSeq(s, a + 1, b - 1), SubSeq(s, b + 1, Len(s))>>

\* datetime.strptime(given_string, given_format) for one date format
strp_fields(fs, fmt) ==
    LET pos(f) == CHOOSE k \in 1..3 : fmt[k + 1] = f \/ (f = "Y" /\ fmt[k + 1] = "y")
        y == YearOf(fmt[pos("Y") + 1], fs[pos("Y")])
        m == StrToInt(fs[pos("m")])
        d == StrToInt(fs[pos("d")])
    IN  IF fs = <<>> \/ \E k \in 1..3 : ~FieldOk(fmt[k + 1], fs[k]) THEN NoDate
        ELSE IF y < 1 \/ d > DaysInMonth(y, m) THEN NoDate
        ELSE Some(DateTime(y, m, d, 0, 0))

StrpDate(s, fmt) == ByValue(ThreeFields(s, fmt[1]), LAMBDA fs : strp_fields(fs, fmt))

\* check_formats over the date formats: the first format that parses
first_parsed(parsed) ==
    IF \E k \in 1..Len(parsed) : parsed[k].kind = "date"
    THEN parsed[MinOf({k \in 1..Len(parsed) : parsed[k].kind = "date"})]
    ELSE NoDate

check_formats(given_string, formats) ==
    ByValue([k \in 1..Len(formats) |-> StrpDate(given_string, formats[k])], first_parsed)

check_date_format(given_string) ==
    ByValue(parse_natural_language_date(given_string),
            LAMBDA natural_date : IF natural_date.kind # "none" THEN natural_date
                                  ELSE check_formats(given_string, date_formats))

\* check_time_format: does one of %H:%M, %H %M, %H%M parse the string
check_time_format(given_string) ==
    LET s == given_string
        n == Len(s)
    IN  \/ \E i \in 2..(n - 1) :
              /\ s[i] = ":"
              /\ FieldOk("H", SubSeq(s, 1, i - 1))
              /\ FieldOk("M", SubSeq(s, i + 1, n))
        \/ \E i \in 2..(n - 1) : \E j \in i..(n - 1) :
              /\ \A k \in i..j : s[k] = " "
              /\ FieldOk("H", SubSeq(s, 1, i - 1))
              /\ FieldOk("M", SubSeq(s, j + 1, n))
        \/ \E i \in 1..(n - 1) :
              /\ FieldOk("H", SubSeq(s, 1, i))
              /\ FieldOk("M", SubSeq(s, i + 1, n))

(***************************************************************************)
(* Prefix Normalizer.                                                      *)
(***************************************************************************)
\* (today|tomorrow|\d+\s*(?:days?|weeks?|months?|years?|[dwmy])) at position i
NaturalPhraseAt(s, i) ==
    HasAt(s, i, <<"t", "o", "d", "a", "y">>) \/ HasAt(s, i, <<"t", "o", "m", "o", "r", "r", "o", "w">>) \/ DurationAt(s, i)

DigitsAt(s, i, n) == i >= 1 /\ i + n - 1 <= Len(s) /\ \A k \in i..(i + n - 1) : IsDigit(s[k])

\* \d{1,2}<sep>\d{1,2}<sep>\d{2,4} at position i
DayFirstAt(s, i, sep) ==
    \E n1 \in 1..2 : \E n2 \in 1..2 :
        /\ DigitsAt(s, i, n1)
        /\ HasAt(s, i + n1, <<sep>>)
        /\ DigitsAt(s, i + n1 + 1, n2)
        /\ HasAt(s, i + n1 + 1 + n2, <<sep>>)
        /\ DigitsAt(s, i + n1 + n2 + 2, 2)

\* \d{4}<sep>\d{1,2}<sep>\d{1,2} at position i
YearFirstAt(s, i, sep) ==
    \E n2 \in 1..2 :
        /\ DigitsAt(s, i, 4)
        /\ HasAt(s, i + 4, <<sep>>)
        /\ DigitsAt(s, i + 5, n2)
        /\ HasAt(s, i + 5 + n2, <<sep>>)
        /\ DigitsAt(s, i + n2 + 6, 1)

\* date_patterns of remove_date_prefixes, by index
DatePatternAt(s, i, k) ==
    CASE k = 1 -> DayFirstAt(s, i, "/")
      [] k = 2 -> DayFirstAt(s, i, "-")
      [] k = 3 -> YearFirstAt(s, i, "-")
      [] k = 4 -> YearFirstAt(s, i, "/")
      [] k = 5 -> DayFirstAt(s, i, ".")

\* the phrase of pattern family k: 0 the natural-language phrases, 1..5 a date pattern
PhraseAt(s, i, k) == IF k = 0 THEN NaturalPhraseAt(s, i) ELSE DatePatternAt(s, i, k)

\* \s*:\s*in\s+(<phrase>) matches from position a; the phrase starts at ColonInGroup
ColonInGroup(s, a) == SkipSpaces(s, SkipSpaces(s, SkipSpaces(s, a) + 1) + 2)

ColonInAt(s, a, k) ==
    LET b == SkipSpaces(s, a)
        c == SkipSpaces(s, b + 1)
    IN  /\ HasAt(s, b, <<":">>)
        /\ HasAt(s, c, <<"i", "n">>)
        /\ HasAt(s, c + 2, <<" ">>)
        /\ PhraseAt(s, ColonInGroup(s, a), k)

\* \s*(in|:)\s+(<phrase>) matches from position a
ConnectorEnd(s, a) ==
    LET b == SkipSpaces(s, a)
    IN  IF HasAt(s, b, <<"i", "n">>) THEN b + 2 ELSE b + 1

SimpleGroup(s, a) == SkipSpaces(s, ConnectorEnd(s, a))

SimpleAt(s, a, k) ==
    LET b == SkipSpaces(s, a)
    IN  /\ (HasAt(s, b, <<"i", "n">>) \/ HasAt(s, b, <<":">>))
        /\ HasAt(s, ConnectorEnd(s, a), <<" ">>)
        /\ PhraseAt(s, SimpleGroup(s, a), k)

\* summary[:prefix_start] + ' ' + summary[group_start:], blanks collapsed and stripped
CutPrefix(s, prefix_start, group_start) ==
    Join(Split(SubSeq(s, 1, prefix_start - 1) \o <<" ">> \o SubSeq(s, group_start, Len(s))))

\* the leftmost start of a match of the compound / the simple form, 0 if none
ColonInSearch(s, k) ==
    IF \E a \in 1..Len(s) : ColonInAt(s, a, k)
    THEN CHOOSE a \in 1..Len(s) : ColonInAt(s, a, k) /\ \A j \in 1..(a - 1) : ~ColonInAt(s, j, k)
    ELSE 0

SimpleSearch(s, k) ==
    IF \E a \in 1..Len(s) : SimpleAt(s, a, k)
    THEN CHOOSE a \in 1..Len(s) : SimpleAt(s, a, k) /\ \A j \in 1..(a - 1) : ~SimpleAt(s, j, k)
    ELSE 0

\* the first date pattern, in list order, the compound / the simple form finds (0 if none)
FirstDatePattern(s, Search(_, _)) ==
    IF \E k \in 1..5 : Search(s, k) # 0
    THEN CHOOSE k \in 1..5 : Search(s, k) # 0 /\ \A j \in 1..(k - 1) : Search(s, j) = 0
    ELSE 0

remove_date_prefixes(summary) ==
    LET low == LowerStr(summary)
        a1 == ColonInSearch(low, 0)
        a2 == SimpleSearch(low, 0)
        k3 == FirstDatePattern(low, ColonInSearch)
        a3 == ColonInSearch(low, k3)
        k4 == FirstDatePattern(low, SimpleSearch)
        a4 == SimpleSearch(low, k4)
    IN  IF a1 # 0 THEN CutPrefix(summary, a1, ColonInGroup(low, a1))
        ELSE IF a2 # 0 THEN CutPrefix(summary, SkipSpaces(low, a2), SimpleGroup(low, a2))
        ELSE IF k3 # 0 THEN CutPrefix(summary, a3, ColonInGroup(low, a3))
        ELSE IF k4 # 0 THEN CutPrefix(summary, SkipSpaces(low, a4), SimpleGroup(low, a4))
        ELSE summary

(***************************************************************************)
(* Title Tokenizer / Field Extractor (the body of process_new_todo_item    *)
(* between the get_items call and the update_item call).                   *)
(***************************************************************************)
\* word.startswith("[") and word.endswith("]")
IsBracketed(w) == Len(w) >= 1 /\ w[1] = "[" /\ w[Len(w)] = "]"

UnitSpellings ==
    { <<"d">>, <<"d", "a", "y">>, <<"d", "a", "y", "s">>,
      <<"w">>, <<"w", "e", "e", "k">>, <<"w", "e", "e", "k", "s">>,
      <<"m">>, <<"m", "o", "n", "t", "h">>, <<"m", "o", "n", "t", "h", "s">>,
      <<"y">>, <<"y", "e", "a", "r">>, <<"y", "e", "a", "r", "s">> }

\* re.match(r'^\d+\s*(days?|weeks?|months?|years?|[dwmy])$', word.lower())
IsDurationWord(w) ==
    LET low == LowerStr(w)
        j == SkipDigits(low, 1)
    IN  /\ Len(low) >= 1 /\ IsDigit(low[1])
        /\ SubSeq(low, SkipSpaces(low, j), Len(low)) \in UnitSpellings

\* re.match(r'\d{1,2}[/-]\d{1,2}[/-]\d{2,4}', word)
MixedDateAtStart(w) ==
    \E n1 \in 1..2 : \E n2 \in 1..2 :
        /\ DigitsAt(w, 1, n1)
        /\ (HasAt(w, 1 + n1, <<"/">>) \/ HasAt(w, 1 + n1, <<"-">>))
        /\ DigitsAt(w, n1 + 2, n2)
        /\ (HasAt(w, n1 + 2 + n2, <<"/">>) \/ HasAt(w, n1 + 2 + n2, <<"-">>))
        /\ DigitsAt(w, n1 + n2 + 3, 2)

\* the test of one word in the candidate filter: "yes", "no", or "raise"
WordPattern(word) ==
    ByValue(parse_natural_language_date(word).kind,
            LAMBDA kind : IF kind = "raise" THEN "raise"
                          ELSE IF \/ kind = "date"
                                  \/ MixedDateAtStart(word)
                                  \/ YearFirstAt(word, 1, "-")
                                  \/ parse_repeat_pattern(word) # NoRule
                          THEN "yes" ELSE "no")

TwoWords(words, i) == words[i] \o <<" ">> \o words[i + 1]

\* has_date_pattern of the candidate filter for one summary
\* the first entry of a sequence of answers that is not the answer no, or no
first_answer(answers, no) ==
    IF \E i \in 1..Len(answers) : answers[i] # no
    THEN answers[MinOf({i \in 1..Len(answers) : answers[i] # no})]
    ELSE no

pattern_in_words(words) ==
    ByValue(first_answer([i \in 1..Len(words) |-> WordPattern(words[i])], "no"),
            LAMBDA one_word :
                IF one_word # "no" THEN one_word
                ELSE ByValue(first_answer([i \in 1..(Len(words) - 1) |->
                                 parse_natural_language_date(TwoWords(words, i)).kind], "none"),
                             LAMBDA pair : IF pair = "raise" THEN "raise"
                                           ELSE IF pair = "date" THEN "yes" ELSE "no"))

has_date_pattern(summary) ==
    ByValue(Split(remove_date_prefixes(summary)), pattern_in_words)

\* the words the repeat branch keeps for the task name (first loop)
RECURSIVE KeepTaskWords(_, _)
KeepTaskWords(words, repeat_string) ==
    IF Len(words) = 0 THEN <<>>
    ELSE LET word == words[1]
             rest == KeepTaskWords(Tail(words), repeat_string)
         IN  IF \/ word = repeat_string
                \/ word \in {<<"a", "t">>, <<"@">>, <<"i", "n">>, <<":">>}
                \/ check_date_format(word).kind = "date"
                \/ check_time_format(word)
                \/ IsDurationWord(word)
             THEN rest
             ELSE <<word>> \o rest

\* the second loop: adjacent pairs that parse as a date are popped
RECURSIVE PopDatePairs(_, _)
PopDatePairs(task_words, i) ==
    IF i >= Len(task_words) THEN task_words
    ELSE IF check_date_format(TwoWords(task_words, i)).kind = "date"
    THEN PopDatePairs(SubSeq(task_words, 1, i - 1) \o SubSeq(task_words, i + 2, Len(task_words)), i)
    ELSE PopDatePairs(task_words, i + 1)

NoPlan == [act |-> "none", rename |-> <<>>, date |-> DateTime(0, 0, 0, 0, 0), time |-> <<>>]

ErrorPlan == [NoPlan EXCEPT !.act = "error"]

UpdatePlan(words, repeat_string, date, time_string) ==
    [act |-> "update",
     rename |-> Strip(Join(words) \o <<" ">> \o repeat_string),
     date |-> Midnight(date),
     time |-> time_string]

\* what the end of the title holds: the repeat token, the time (23:59 when
\* none is given), and k2, the number of words the token, the time and the
\* word before the time take up
trailing_fields(summary_split) ==
    LET n == Len(summary_split)
        k1 == IF n >= 1 /\ IsBracketed(summary_split[n]) THEN 1 ELSE 0
    IN  ByValue(n - k1 >= 1 /\ check_time_format(summary_split[n - k1]),
                LAMBDA has_time :
                    LET has_at == /\ has_time
                                  /\ n - k1 - 1 >= 1
                                  /\ summary_split[n - k1 - 1] \in {<<"a", "t">>, <<"@">>}
                    IN  [repeat_string |-> IF k1 = 1 THEN summary_split[n] ELSE <<>>,
                         time_string |-> IF has_time THEN summary_split[n - k1] ELSE <<"2", "3", ":", "5", "9">>,
                         k2 |-> k1 + (IF has_time THEN 1 ELSE 0) + (IF has_at THEN 1 ELSE 0)])

\* the repeat branch: the date is the first occurrence, the name is what is
\* left of the words
repeat_branch(summary_split, tr, calculated) ==
    IF \E i \in 1..Len(summary_split) : check_date_format(summary_split[i]).kind = "raise"
    THEN ErrorPlan
    ELSE ByValue(KeepTaskWords(summary_split, tr.repeat_string),
                 LAMBDA kept :
                     IF \E i \in 1..(Len(kept) - 1) :
                            check_date_format(TwoWords(kept, i)).kind = "raise"
                     THEN ErrorPlan
                     ELSE UpdatePlan(PopDatePairs(kept, 1), tr.repeat_string,
                                     calculated.dt, tr.time_string))

\* a date branch that falls back on today when the text holds no date
dated_or_today(summary_split, tr, one, two) ==
    LET n == Len(summary_split)
    IN  IF one.kind = "raise" \/ two.kind = "raise" THEN ErrorPlan
        ELSE IF one.kind = "date"
        THEN UpdatePlan(SubSeq(summary_split, 1, n - tr.k2 - 1), tr.repeat_string,
                        one.dt, tr.time_string)
        ELSE IF two.kind = "date"
        THEN UpdatePlan(SubSeq(summary_split, 1, n - tr.k2 - 2), tr.repeat_string,
                        two.dt, tr.time_string)
        ELSE UpdatePlan(SubSeq(summary_split, 1, n - tr.k2), tr.repeat_string,
                        Today, tr.time_string)

\* the date branch: the date is the word, or the two words, before the time
dated(summary_split, tr, one, two) ==
    LET n == Len(summary_split)
    IN  IF one.kind = "raise" \/ two.kind = "raise" THEN ErrorPlan
        ELSE IF one.kind = "date"
        THEN UpdatePlan(SubSeq(summary_split, 1, n - tr.k2 - 1), tr.repeat_string,
                        one.dt, tr.time_string)
        ELSE IF two.kind = "date"
        THEN UpdatePlan(SubSeq(summary_split, 1, n - tr.k2 - 2), tr.repeat_string,
                        two.dt, tr.time_string)
        ELSE NoPlan

\* no date taken from the text
no_text_date(summary_split, tr) == NoPlan

date_branch(summary_split, tr) ==
    LET m == Len(summary_split) - tr.k2
    IN  ByValue(IF m >= 1 THEN check_date_format(summary_split[m]) ELSE NoDate,
                LAMBDA one :
                    ByValue(IF one.kind = "none" /\ m - 1 >= 1
                            THEN check_date_format(TwoWords(summary_split, m - 1))
                            ELSE NoDate,
                            LAMBDA two : dated(summary_split, tr, one, two)))

\* the fields taken from the text alone, a repeat rule overriding nothing
fields_from_text(summary_split, tr) == date_branch(summary_split, tr)

fields_with(summary_split, tr) ==
    ByValue(IF tr.repeat_string # <<>> THEN parse_repeat_pattern(tr.repeat_string)
            ELSE NoRule,
            LAMBDA repeat_info :
                ByValue(IF repeat_info # NoRule
                        THEN calculate_first_occurrence(Today, repeat_info) ELSE NoDate,
                        LAMBDA calculated :
                            IF repeat_info # NoRule /\ calculated.kind = "date"
                            THEN repeat_branch(summary_split, tr, calculated)
                            ELSE date_branch(summary_split, tr)))

\* the rewrite computed from the words of one title: act "update" with the
\* new title, the date and the time string; "none" when the code returns;
\* "error" when a matcher raises
fields_of_words(summary_split) ==
    IF Len(summary_split) = 0 THEN NoPlan
    ELSE ByValue(trailing_fields(summary_split),
                 LAMBDA tr : fields_with(summary_split, tr))

extract_fields(summary) ==
    ByValue(Split(remove_date_prefixes(summary)), fields_of_words)

(***************************************************************************)
(* The host list and its services (the external collaborator).  The code   *)
(* names the item of update_item by its summary ("item": summary); the     *)
(* host resolves the name to the first item of the list that carries it,   *)
(* and add_item appends.                                                   *)
(***************************************************************************)
Entity == "todo.list"

\* the text of a due value: "" (no due), "YYYY-MM-DD" (date), the host's
\* "YYYY-MM-DDTHH:MM:SS" (iso), a request's "YYYY-MM-DD HH:MM" (space)
NoDue == [fmt |-> "", dt |-> DateTime(0, 0, 0, 0, 0), time |-> <<>>]

DueDate(dt) == [fmt |-> "date", dt |-> Midnight(dt), time |-> <<>>]

DueIso(dt) == [fmt |-> "iso", dt |-> dt, time |-> <<>>]

DueDateTime(dt, time_string) == [fmt |-> "space", dt |-> Midnight(dt), time |-> time_string]

Pad2(n) == IF n < 10 THEN <<"0">> \o IntToStr(n) ELSE IntToStr(n)

\* strftime("%H:%M")
FormatHM(dt) == Pad2(dt.hour) \o <<":">> \o Pad2(dt.minute)

\* the host reads the time of a due_datetime as H:MM or HH:MM
TimeParses(t) ==
    \E i \in 2..3 :
        /\ Len(t) = i + 2
        /\ t[i] = ":"
        /\ FieldOk("H", SubSeq(t, 1, i - 1))
        /\ FieldOk("M", SubSeq(t, i + 1, Len(t)))

TimeOf(t) ==
    LET i == CHOOSE k \in 2..3 : t[k] = ":"
    IN  [hour |-> StrToInt(SubSeq(t, 1, i - 1)), minute |-> StrToInt(SubSeq(t, i + 1, Len(t)))]

\* the due value the host stores for a request's due
HostDue(due) ==
    IF due.fmt = "space"
    THEN DueIso([due.dt EXCEPT !.hour = TimeOf(due.time).hour,
                               !.minute = TimeOf(due.time).minute])
    ELSE due

DueAccepted(due) == due.fmt # "space" \/ TimeParses(due.time)

Item(uid, summary, due, status, src) ==
    [uid |-> uid, summary |-> summary, due |-> due, status |-> status, src |-> src,
     tags |-> {}]

\* the first item the host finds under a name, 0 if none
HostFind(list, name) ==
    IF \E i \in 1..Len(list) : list[i].summary = name
    THEN MinOf({i \in 1..Len(list) : list[i].summary = name})
    ELSE 0

\* update_item: rename (when has_rename), status, and due (when given)
UpdateRequest(item, has_rename, rename, status, due) ==
    [item |-> item, has_rename |-> has_rename, rename |-> rename,
     status |-> status, due |-> due]

NoRequest == UpdateRequest(<<>>, FALSE, <<>>, "", NoDue)

HostAccepts(list, req) == HostFind(list, req.item) # 0 /\ DueAccepted(req.due)

HostUpdate(list, req) ==
    LET i == HostFind(list, req.item)
    IN  [list EXCEPT ![i] =
            [@ EXCEPT !.summary = IF req.has_rename THEN req.rename ELSE @,
                      !.status = req.status,
                      !.due = IF req.due.fmt = "" THEN @ ELSE HostDue(req.due)]]

\* add_item: a new item at the end of the list; src records, for the checks,
\* the completed item a successor was created for
HostAdd(list, summary, due, src) ==
    Append(list, Item(Len(list) + 1, summary, HostDue(due), "needs_action", src))

(***************************************************************************)
(* State.                                                                  *)
(***************************************************************************)
VARIABLES
    items,                          \* the host's list of the entity, in host order
    PROCESSING_LOCKS,               \* entities under new-item reconciliation
    PROCESSED_COMPLETED_ITEMS,      \* entity:uid of completed items already promoted
    NEWLY_CREATED_RECURRING_TASKS,  \* entity:summary of successors just created
    settings,                       \* the entity's toggles and the smart-list switch
    events,                         \* state-change events raised and not yet delivered
    timers,                         \* pending call_later(5, cleanup_tracking), in order
    proc,                           \* the process_new_todo_item tasks
    scan,                           \* the check_for_completed_recurring_tasks tasks
    env,                            \* counters of what the environment has done
    matched,                        \* the matchers' answers on every title, kept from start
    check                           \* a function of the code applied to one drawn input

vars == <<items, PROCESSING_LOCKS, PROCESSED_COMPLETED_ITEMS,
          NEWLY_CREATED_RECURRING_TASKS, settings, events, timers, proc, scan, env,
          matched, check>>

\* what no task and no user changes
fixed == <<settings, matched, check>>

guards == <<PROCESSING_LOCKS, PROCESSED_COMPLETED_ITEMS, NEWLY_CREATED_RECURRING_TASKS>>

Tasks == 1..MaxTasks

\* the titles of the lists the model draws
Summaries == {<<"g", "y", "m", " ", "[", "d", "]">>, <<"d", "o", "g", " ", "5", "d">>}

\* due values of the items at start: none, yesterday 23:59
InitDues == {NoDue, DueIso(DateTime(2025, 6, 16, 23, 59))}

InitItems ==
    {[summary |-> s, due |-> d, status |-> st] :
        s \in Summaries, d \in InitDues, st \in {"needs_action", "completed"}}

InitLists ==
    UNION {[1..n -> InitItems] : n \in 0..MaxInit}

\* the list with uids given in order; tags and src are what the checks record
WithUids(l) == [i \in 1..Len(l) |->
    [uid |-> i, summary |-> l[i].summary, due |-> l[i].due, status |-> l[i].status,
     src |-> 0, tags |-> {}]]

IdleProc == [pc |-> "idle", uid |-> 0, req |-> NoRequest]

IdleScan == [pc |-> "idle", snap |-> <<>>, idx |-> 0, new_summary |-> <<>>,
             due |-> NoDue, status |-> ""]

\* whether the entity's state carries a count attribute
CountAttr == {FALSE}

SettingsChoices ==
    [auto_due_parsing : BOOLEAN, process_recurring : BOOLEAN, enable_smart_lists : {FALSE}]

(***************************************************************************)
(* What the tasks compute from a fetched list.                             *)
(***************************************************************************)
\* the first bracketed word of a title, <<>> if none
first_bracketed(summary) ==
    LET words == Split(summary)
        B == {i \in 1..Len(words) : IsBracketed(words[i])}
    IN  IF B = {} THEN <<>> ELSE words[MinOf(B)]

\* str.replace(old, ""): every occurrence of old, left to right
RECURSIVE RemoveAll(_, _)
RemoveAll(s, old) ==
    IF Len(s) < Len(old) \/ Len(old) = 0 THEN s
    ELSE IF SubSeq(s, 1, Len(old)) = old
    THEN RemoveAll(SubSeq(s, Len(old) + 1, Len(s)), old)
    ELSE <<s[1]>> \o RemoveAll(Tail(s), old)

original_summary_of(summary) == Strip(RemoveAll(summary, first_bracketed(summary)))

\* the title create_recurring_task gives the successor of an item
successor_summary(summary) ==
    Strip(original_summary_of(summary) \o <<" ">>
          \o reconstruct_repeat_pattern(parse_repeat_pattern(first_bracketed(summary))))

\* every title an item of the model can carry: the titles drawn at start,
\* and what a rewrite, a strip and a successor make of them
Titles == Summaries \cup {<<"g", "y", "m">>, <<"d", "o", "g">>}

\* what the code's matchers answer on one title
title_analysis(s) ==
    [pattern |-> has_date_pattern(s),
     fields |-> extract_fields(s),
     token |-> first_bracketed(s),
     rule |-> parse_repeat_pattern(first_bracketed(s)),
     stripped |-> original_summary_of(s),
     successor |-> IF parse_repeat_pattern(first_bracketed(s)) = NoRule THEN <<>>
                   ELSE successor_summary(s)]

\* the response of get_items: the host's fields of every item
View(list) == [i \in 1..Len(list) |->
    [uid |-> list[i].uid, summary |-> list[i].summary, due |-> list[i].due,
     status |-> list[i].status]]

task_key(x) == <<Entity, x>>

\* a mark the checks keep on the live item with the given uid
Tag(list, uid, tag) == [i \in 1..Len(list) |->
    IF list[i].uid = uid THEN [list[i] EXCEPT !.tags = @ \cup {tag}] ELSE list[i]]

\* the items the candidate loop does not skip
Unskipped(snap, newly) ==
    {i \in 1..Len(snap) : snap[i].due.fmt = "" /\ task_key(snap[i].summary) \notin newly}

\* has_date_pattern of every item the loop tests, "no" for the items it skips
tested(snap, newly) == [i \in 1..Len(snap) |->
    IF i \in Unskipped(snap, newly) THEN matched[snap[i].summary].pattern ELSE "no"]

candidates(snap, newly) == {i \in 1..Len(snap) : tested(snap, newly)[i] = "yes"}

\* a rewrite that sends the date as due_date and drops the time
rewrite_date_only(new_item, plan) ==
    IF plan.act = "update"
    THEN [kind |-> "update", uid |-> new_item.uid,
          req |-> UpdateRequest(new_item.summary, TRUE, plan.rename, new_item.status,
                                DueDate(plan.date))]
    ELSE [kind |-> plan.act, uid |-> 0, req |-> NoRequest]

rewrite_of(new_item, plan) ==
    IF plan.act = "update"
    THEN [kind |-> "update", uid |-> new_item.uid,
          req |-> UpdateRequest(new_item.summary, TRUE, plan.rename, new_item.status,
                                DueDateTime(plan.date, plan.time))]
    ELSE [kind |-> plan.act, uid |-> 0, req |-> NoRequest]

\* a loop that keeps the last candidate instead of the first
last_candidate(snap, has_pattern) ==
    IF \E i \in 1..Len(snap) : has_pattern[i] = "raise"
    THEN [kind |-> "error", uid |-> 0, req |-> NoRequest]
    ELSE IF \A i \in 1..Len(snap) : has_pattern[i] # "yes"
    THEN [kind |-> "none", uid |-> 0, req |-> NoRequest]
    ELSE ByValue(snap[CHOOSE i \in 1..Len(snap) :
                          /\ has_pattern[i] = "yes"
                          /\ \A j \in 1..Len(snap) : has_pattern[j] = "yes" => j <= i],
                 LAMBDA new_item : rewrite_of(new_item, matched[new_item.summary].fields))

first_candidate(snap, has_pattern) ==
    IF \E i \in 1..Len(snap) : has_pattern[i] = "raise"
    THEN [kind |-> "error", uid |-> 0, req |-> NoRequest]
    ELSE IF \A i \in 1..Len(snap) : has_pattern[i] # "yes"
    THEN [kind |-> "none", uid |-> 0, req |-> NoRequest]
    ELSE ByValue(snap[MinOf({i \in 1..Len(snap) : has_pattern[i] = "yes"})],
                 LAMBDA new_item : rewrite_of(new_item, matched[new_item.summary].fields))

\* the outcome of process_new_todo_item on a fetched list: the update_item
\* request for the first candidate, "none" when the task returns without a
\* call, "error" when a matcher raises
new_item_plan(snap, newly) ==
    ByValue(tested(snap, newly), LAMBDA has_pattern : first_candidate(snap, has_pattern))

\* a completed item that carries a rule and a due date (the scan's tests
\* other than the guard)
carries_rule(item) ==
    /\ item.status = "completed"
    /\ Len(item.summary) > 0
    /\ matched[item.summary].token # <<>>
    /\ matched[item.summary].rule # NoRule
    /\ item.due.fmt # ""

\* the scan without its test of the guard
qualifies_unguarded(item, processed) == carries_rule(item)

qualifies(item, processed) ==
    carries_rule(item) /\ task_key(item.uid) \notin processed

\* the first item at or after position from that the scan handles, 0 if none
next_index(snap, from, processed) ==
    LET Q == {i \in from..Len(snap) : qualifies(snap[i], processed)}
    IN  IF Q = {} THEN 0 ELSE MinOf(Q)

\* the time string the scan hands on: "%H:%M" of a due datetime, "" of a date
time_string_of(due) == IF due.fmt = "iso" THEN FormatHM(due.dt) ELSE <<>>

\* existing_due != new_due_datetime compares the texts: the host writes a
\* datetime with "T", the request with a blank, so only two dates can be equal
same_due_text(existing_due, new_due) ==
    existing_due.fmt = "date" /\ new_due.fmt = "date" /\ existing_due.dt = new_due.dt

\* the scan task once its loop stands at position i of the snapshot (0: past
\* the end): create_recurring_task up to its first host call
scan_at(snap, i) ==
    IF i = 0 THEN IdleScan
    ELSE LET item == snap[i]
             repeat_info == matched[item.summary].rule
             time_string == time_string_of(item.due)
             next_date == schedule_next_occurrence(Today, item.due.dt, repeat_info)
             new_summary == matched[item.summary].successor
         IN  IF next_date.kind # "date"
             THEN [IdleScan EXCEPT !.pc = "strip", !.snap = snap, !.idx = i]
             ELSE [pc |-> "find", snap |-> snap, idx |-> i, new_summary |-> new_summary,
                   due |-> IF time_string # <<>>
                           THEN DueDateTime(next_date.dt, time_string)
                           ELSE DueDate(next_date.dt),
                   status |-> ""]

\* a lookup that never finds the successor
duplicate_never_found(list, summary_with_pattern) == 0

\* the first live item find_duplicate_recurring_task returns, 0 if none
duplicate_index(list, summary_with_pattern) ==
    LET D == {i \in 1..Len(list) : /\ list[i].summary = summary_with_pattern
                                   /\ list[i].status # "completed"}
    IN  IF D = {} THEN 0 ELSE MinOf(D)

NoCheck == [pc |-> "none"]

Init ==
    /\ matched = [s \in Titles |-> title_analysis(s)]
    /\ check = NoCheck
    /\ items \in {WithUids(l) : l \in InitLists}
    /\ PROCESSING_LOCKS = {}
    /\ PROCESSED_COMPLETED_ITEMS = {}
    /\ NEWLY_CREATED_RECURRING_TASKS = {}
    /\ settings \in SettingsChoices
    /\ events = <<>>
    /\ timers = <<>>
    /\ proc = [t \in Tasks |-> IdleProc]
    /\ scan = [t \in Tasks |-> IdleScan]
    /\ env \in {[failures |-> 0, user |-> 0, restarts |-> 0, count_attr |-> c,
                 proc_failed |-> FALSE, aborted |-> FALSE] : c \in CountAttr}

(***************************************************************************)
(* Events and tasks.                                                       *)
(***************************************************************************)
NoCount == 0 - 1

\* the count attribute of the entity's state, NoCount when the host has none
count_of(list) == IF env.count_attr THEN Len(list) ELSE NoCount

\* an event waits for delivery; beyond MaxEvents waiting events a further one
\* stays outside the model (it is still undelivered)
raise_event(queue, evt) == IF Len(queue) < MaxEvents THEN Append(queue, evt) ELSE queue

state_changed(old_list, new_list) == [old |-> count_of(old_list), new |-> count_of(new_list)]

startup_event(list) == [old |-> NoCount, new |-> count_of(list)]

\* a test for any change of the count
count_changed(evt) == evt.new # evt.old \/ evt.old = NoCount

\* lines 1090-1108: a grown count, or no count attribute on the old state
should_process(evt) ==
    LET old_count == IF evt.old # NoCount THEN evt.old ELSE 0
        new_count == IF evt.new # NoCount THEN evt.new ELSE 0
    IN  new_count > old_count \/ evt.old = NoCount

FreeProc == {t \in Tasks : proc[t].pc = "idle"}

FreeScan == {t \in Tasks : scan[t].pc = "idle"}

\* a failure that leaves the task
propagates == "raised"

\* where a task stands when its handler has caught a failure and it ends
proc_caught == "idle"

scan_caught == "idle"

\* a task that does not test the guard
guard_untested == FALSE

\* the guard test at the head of process_new_todo_item
guard_held == Entity \in PROCESSING_LOCKS

\* a task without the finally block
finally_missing(locks) == locks

\* finally: PROCESSING_LOCKS.discard(entity_id)
finally_discard(locks) == locks \ {Entity}

\* create_recurring_task without its handler: the failure reaches the outer
\* handler of the scan, which ends the scan
create_uncaught(task) == IdleScan

\* the handler of create_recurring_task has caught a failure: the function
\* returns and the scan goes on to strip the token
create_caught(task) == [task EXCEPT !.pc = "strip"]

\* the items a scan passes over at positions from..to because the guard
\* holds their key, marked on the live list
mark_skipped(list, snap, from, to, processed) ==
    LET S == {snap[i].uid : i \in {j \in from..to : /\ carries_rule(snap[j])
                                                     /\ task_key(snap[j].uid) \in processed}}
    IN  [i \in 1..Len(list) |->
            IF list[i].uid \in S THEN [list[i] EXCEPT !.tags = @ \cup {"skipped"}]
            ELSE list[i]]

\* state_changed_listener: one waiting event is delivered
Listener ==
    /\ Len(events) > 0
    /\ LET evt == Head(events)
           spawns == /\ settings.auto_due_parsing \/ settings.enable_smart_lists
                     /\ should_process(evt)
                     /\ Entity \notin PROCESSING_LOCKS
       IN  IF ~spawns
           THEN /\ events' = Tail(events)
                /\ UNCHANGED <<proc, scan>>
           ELSE /\ FreeProc # {}
                /\ settings.process_recurring => FreeScan # {}
                /\ events' = Tail(events)
                /\ proc' = [proc EXCEPT ![MinOf(FreeProc)] = [IdleProc EXCEPT !.pc = "start"]]
                /\ scan' = IF settings.process_recurring
                           THEN [scan EXCEPT ![MinOf(FreeScan)] =
                                    [IdleScan EXCEPT !.pc = "get_items"]]
                           ELSE scan
    /\ UNCHANGED <<items, guards, fixed, timers, env>>

\* process_new_todo_item up to its first await: the guard test and the add
ProcStart(t) ==
    /\ proc[t].pc = "start"
    /\ IF guard_held
       THEN /\ proc' = [proc EXCEPT ![t] = IdleProc]
            /\ env' = [env EXCEPT !.aborted = TRUE]
            /\ UNCHANGED PROCESSING_LOCKS
       ELSE /\ PROCESSING_LOCKS' = PROCESSING_LOCKS \cup {Entity}
            /\ proc' = [proc EXCEPT ![t].pc = "get_items"]
            /\ UNCHANGED env
    /\ UNCHANGED <<items, PROCESSED_COMPLETED_ITEMS, NEWLY_CREATED_RECURRING_TASKS,
                   fixed, events, timers, scan>>

\* get_items answers: the candidate is chosen and its rewrite computed; a
\* task with nothing to rewrite, or whose matcher raises, ends and frees the guard
ProcGetItems(t) ==
    /\ proc[t].pc = "get_items"
    /\ \E plan \in {new_item_plan(View(items), NEWLY_CREATED_RECURRING_TASKS)} :
           IF plan.kind = "update"
           THEN /\ proc' = [proc EXCEPT ![t] = [pc |-> "update_item", uid |-> plan.uid,
                                                req |-> plan.req]]
                /\ UNCHANGED PROCESSING_LOCKS
           ELSE /\ proc' = [proc EXCEPT ![t] =
                               [IdleProc EXCEPT !.pc = IF plan.kind = "error"
                                                       THEN proc_caught ELSE "idle"]]
                /\ PROCESSING_LOCKS' = finally_discard(PROCESSING_LOCKS)
    /\ UNCHANGED <<items, PROCESSED_COMPLETED_ITEMS, NEWLY_CREATED_RECURRING_TASKS,
                   fixed, events, timers, scan, env>>

\* get_items fails: except, finally
ProcGetItemsFails(t) ==
    /\ proc[t].pc = "get_items"
    /\ env.failures + env.restarts < MaxFaults
    /\ env' = [env EXCEPT !.failures = @ + 1, !.proc_failed = TRUE]
    /\ proc' = [proc EXCEPT ![t] = [IdleProc EXCEPT !.pc = proc_caught]]
    /\ PROCESSING_LOCKS' = finally_discard(PROCESSING_LOCKS)
    /\ UNCHANGED <<items, PROCESSED_COMPLETED_ITEMS, NEWLY_CREATED_RECURRING_TASKS,
                   fixed, events, timers, scan>>

\* update_item is applied by the host; apply_auto_sort_if_enabled returns at
\* once because the guard is held; finally
ProcUpdate(t) ==
    /\ proc[t].pc = "update_item"
    /\ HostAccepts(items, proc[t].req)
    /\ items' = Tag(HostUpdate(items, proc[t].req),
                    items[HostFind(items, proc[t].req.item)].uid, "rewritten")
    /\ events' = raise_event(events, state_changed(items, items'))
    /\ proc' = [proc EXCEPT ![t] = IdleProc]
    /\ PROCESSING_LOCKS' = finally_discard(PROCESSING_LOCKS)
    /\ UNCHANGED <<PROCESSED_COMPLETED_ITEMS, NEWLY_CREATED_RECURRING_TASKS,
                   fixed, timers, scan, env>>

\* update_item is refused (no item under the name, unreadable time) or
\* fails: except, finally
ProcUpdateFails(t) ==
    /\ proc[t].pc = "update_item"
    /\ IF HostAccepts(items, proc[t].req)
       THEN /\ env.failures + env.restarts < MaxFaults
            /\ env' = [env EXCEPT !.failures = @ + 1, !.proc_failed = TRUE]
       ELSE env' = [env EXCEPT !.proc_failed = TRUE]
    /\ proc' = [proc EXCEPT ![t] = [IdleProc EXCEPT !.pc = proc_caught]]
    /\ PROCESSING_LOCKS' = finally_discard(PROCESSING_LOCKS)
    /\ UNCHANGED <<items, PROCESSED_COMPLETED_ITEMS, NEWLY_CREATED_RECURRING_TASKS,
                   fixed, events, timers, scan>>

\* the snapshot item a scan task is handling
current(t) == scan[t].snap[scan[t].idx]

\* the loop of the scan moves on from position from: the guarded items are
\* passed over, the next item handled is marked in the guard before any call
scan_moves(t, snap, from) ==
    LET i == next_index(snap, from, PROCESSED_COMPLETED_ITEMS)
    IN  /\ scan' = [scan EXCEPT ![t] = scan_at(snap, i)]
        /\ PROCESSED_COMPLETED_ITEMS' =
              IF i = 0 THEN PROCESSED_COMPLETED_ITEMS
              ELSE PROCESSED_COMPLETED_ITEMS \cup {task_key(snap[i].uid)}

passed_over(list, snap, from) ==
    LET i == next_index(snap, from, PROCESSED_COMPLETED_ITEMS)
    IN  mark_skipped(list, snap, from, IF i = 0 THEN Len(snap) ELSE i - 1,
                     PROCESSED_COMPLETED_ITEMS)

\* check_for_completed_recurring_tasks: get_items answers
ScanGetItems(t) ==
    /\ scan[t].pc = "get_items"
    /\ scan_moves(t, View(items), 1)
    /\ items' = passed_over(items, View(items), 1)
    /\ UNCHANGED <<PROCESSING_LOCKS, NEWLY_CREATED_RECURRING_TASKS, fixed, events,
                   timers, proc, env>>

\* get_items fails: the outer handler
ScanGetItemsFails(t) ==
    /\ scan[t].pc = "get_items"
    /\ env.failures + env.restarts < MaxFaults
    /\ env' = [env EXCEPT !.failures = @ + 1]
    /\ scan' = [scan EXCEPT ![t] = [IdleScan EXCEPT !.pc = scan_caught]]
    /\ UNCHANGED <<items, guards, fixed, events, timers, proc>>

\* find_duplicate_recurring_task answers
ScanFind(t) ==
    /\ scan[t].pc = "find"
    /\ LET d == duplicate_index(items, scan[t].new_summary)
       IN  IF d # 0
           THEN /\ scan' = [scan EXCEPT
                               ![t].pc = IF same_due_text(items[d].due, scan[t].due)
                                         THEN "strip" ELSE "update_existing",
                               ![t].status = items[d].status]
                /\ items' = Tag(items, current(t).uid,
                                IF items[d].src = current(t).uid
                                THEN "found_successor" ELSE "adopted")
                /\ UNCHANGED NEWLY_CREATED_RECURRING_TASKS
           ELSE /\ scan' = [scan EXCEPT ![t].pc = "add_item"]
                /\ NEWLY_CREATED_RECURRING_TASKS' =
                      NEWLY_CREATED_RECURRING_TASKS \cup {task_key(scan[t].new_summary)}
                /\ UNCHANGED items
    /\ UNCHANGED <<PROCESSING_LOCKS, PROCESSED_COMPLETED_ITEMS, fixed, events, timers,
                   proc, env>>

\* its get_items fails: the lookup answers None and the successor is created
ScanFindFails(t) ==
    /\ scan[t].pc = "find"
    /\ env.failures + env.restarts < MaxFaults
    /\ env' = [env EXCEPT !.failures = @ + 1]
    /\ scan' = [scan EXCEPT ![t].pc = "add_item"]
    /\ NEWLY_CREATED_RECURRING_TASKS' =
          NEWLY_CREATED_RECURRING_TASKS \cup {task_key(scan[t].new_summary)}
    /\ items' = Tag(items, current(t).uid, "lookup_failed")
    /\ UNCHANGED <<PROCESSING_LOCKS, PROCESSED_COMPLETED_ITEMS, fixed, events, timers,
                   proc>>

existing_request(t) ==
    UpdateRequest(scan[t].new_summary, FALSE, <<>>, scan[t].status, scan[t].due)

\* the existing successor's due date is updated
ScanUpdateExisting(t) ==
    /\ scan[t].pc = "update_existing"
    /\ HostAccepts(items, existing_request(t))
    /\ items' = HostUpdate(items, existing_request(t))
    /\ events' = raise_event(events, state_changed(items, items'))
    /\ scan' = [scan EXCEPT ![t].pc = "strip"]
    /\ UNCHANGED <<guards, fixed, timers, proc, env>>

\* that update is refused or fails: the handler of create_recurring_task
ScanUpdateExistingFails(t) ==
    /\ scan[t].pc = "update_existing"
    /\ IF HostAccepts(items, existing_request(t))
       THEN /\ env.failures + env.restarts < MaxFaults
            /\ env' = [env EXCEPT !.failures = @ + 1]
       ELSE UNCHANGED env
    /\ items' = Tag(items, current(t).uid, "create_failed")
    /\ scan' = [scan EXCEPT ![t] = create_caught(scan[t])]
    /\ UNCHANGED <<guards, fixed, events, timers, proc>>

\* add_item creates the successor; the cleanup of its key is scheduled
ScanAdd(t) ==
    /\ scan[t].pc = "add_item"
    /\ items' = HostAdd(items, scan[t].new_summary, scan[t].due, current(t).uid)
    /\ events' = raise_event(events, state_changed(items, items'))
    /\ timers' = Append(timers, task_key(scan[t].new_summary))
    /\ scan' = [scan EXCEPT ![t].pc = "strip"]
    /\ UNCHANGED <<guards, fixed, proc, env>>

\* add_item fails: the handler of create_recurring_task, nothing is scheduled
ScanAddFails(t) ==
    /\ scan[t].pc = "add_item"
    /\ env.failures + env.restarts < MaxFaults
    /\ env' = [env EXCEPT !.failures = @ + 1]
    /\ items' = Tag(items, current(t).uid, "create_failed")
    /\ scan' = [scan EXCEPT ![t] = create_caught(scan[t])]
    /\ UNCHANGED <<guards, fixed, events, timers, proc>>

strip_request(t) ==
    UpdateRequest(current(t).summary, TRUE, matched[current(t).summary].stripped,
                  "completed", NoDue)

\* the token is taken off the completed item, and the loop moves on
ScanStrip(t) ==
    /\ scan[t].pc = "strip"
    /\ HostAccepts(items, strip_request(t))
    /\ LET list == Tag(HostUpdate(items, strip_request(t)), current(t).uid, "strip_called")
       IN  /\ items' = passed_over(list, scan[t].snap, scan[t].idx + 1)
           /\ events' = raise_event(events, state_changed(items, list))
    /\ scan_moves(t, scan[t].snap, scan[t].idx + 1)
    /\ UNCHANGED <<PROCESSING_LOCKS, NEWLY_CREATED_RECURRING_TASKS, fixed, timers,
                   proc, env>>

\* that update is refused or fails: the inner handler, and the loop moves on
ScanStripFails(t) ==
    /\ scan[t].pc = "strip"
    /\ IF HostAccepts(items, strip_request(t))
       THEN /\ env.failures + env.restarts < MaxFaults
            /\ env' = [env EXCEPT !.failures = @ + 1]
       ELSE UNCHANGED env
    /\ items' = passed_over(Tag(Tag(items, current(t).uid, "strip_called"),
                                current(t).uid, "strip_failed"),
                            scan[t].snap, scan[t].idx + 1)
    /\ scan_moves(t, scan[t].snap, scan[t].idx + 1)
    /\ UNCHANGED <<PROCESSING_LOCKS, NEWLY_CREATED_RECURRING_TASKS, fixed, events,
                   timers, proc>>

\* cleanup_tracking runs after the delay
Timer ==
    /\ Len(timers) > 0
    /\ NEWLY_CREATED_RECURRING_TASKS' = NEWLY_CREATED_RECURRING_TASKS \ {Head(timers)}
    /\ timers' = Tail(timers)
    /\ UNCHANGED <<items, PROCESSING_LOCKS, PROCESSED_COMPLETED_ITEMS, fixed, events,
                   proc, scan, env>>

(***************************************************************************)
(* The environment: the user, the host's other events, a restart.          *)
(***************************************************************************)
UserComplete(i) ==
    /\ env.user < MaxUserOps
    /\ items[i].status = "needs_action"
    /\ env' = [env EXCEPT !.user = @ + 1]
    /\ items' = [items EXCEPT ![i].status = "completed"]
    /\ events' = raise_event(events, state_changed(items, items'))
    /\ UNCHANGED <<guards, fixed, timers, proc, scan>>

\* a state change of the entity that leaves the list as it is
HostEvent ==
    /\ env.user < MaxUserOps
    /\ env' = [env EXCEPT !.user = @ + 1]
    /\ events' = raise_event(events, state_changed(items, items))
    /\ UNCHANGED <<items, guards, fixed, timers, proc, scan>>

\* the process restarts: module state is empty again, tasks and timers are
\* gone, and the entity's state is announced with no old state
Restart ==
    /\ env.failures + env.restarts < MaxFaults
    /\ env' = [env EXCEPT !.restarts = @ + 1]
    /\ PROCESSING_LOCKS' = {}
    /\ PROCESSED_COMPLETED_ITEMS' = {}
    /\ NEWLY_CREATED_RECURRING_TASKS' = {}
    /\ events' = <<startup_event(items)>>
    /\ timers' = <<>>
    /\ proc' = [t \in Tasks |-> IdleProc]
    /\ scan' = [t \in Tasks |-> IdleScan]
    /\ UNCHANGED <<items, fixed>>

Next ==
    \/ Listener
    \/ \E t \in Tasks : ProcStart(t)
    \/ \E t \in Tasks : ProcGetItems(t)
    \/ \E t \in Tasks : ProcGetItemsFails(t)
    \/ \E t \in Tasks : ProcUpdate(t)
    \/ \E t \in Tasks : ProcUpdateFails(t)
    \/ \E t \in Tasks : ScanGetItems(t)
    \/ \E t \in Tasks : ScanGetItemsFails(t)
    \/ \E t \in Tasks : ScanFind(t)
    \/ \E t \in Tasks : ScanFindFails(t)
    \/ \E t \in Tasks : ScanUpdateExisting(t)
    \/ \E t \in Tasks : ScanUpdateExistingFails(t)
    \/ \E t \in Tasks : ScanAdd(t)
    \/ \E t \in Tasks : ScanAddFails(t)
    \/ \E t \in Tasks : ScanStrip(t)
    \/ \E t \in Tasks : ScanStripFails(t)
    \/ Timer
    \/ \E i \in 1..Len(items) : UserComplete(i)
    \/ HostEvent
    \/ Restart

Spec == Init /\ [][Next]_vars

(***************************************************************************)
(* Properties of the tasks.                                                *)
(***************************************************************************)
\* the positions of the items created as successor of the item with uid c
successors(c) == {i \in 1..Len(items) : items[i].src = c}

Uids == {items[i].uid : i \in 1..Len(items)}

tags_of(list, c) == UNION {list[i].tags : i \in {j \in 1..Len(list) : list[j].uid = c}}

\* a scan task stands inside create_recurring_task for the item with uid c
creating(c) == \E t \in Tasks : /\ scan[t].pc \in {"find", "update_existing", "add_item"}
                                /\ current(t).uid = c

\* a scan task is handling the item with uid c
handling(tasks, c) == \E t \in Tasks : /\ tasks[t].pc \notin {"idle", "get_items", "raised"}
                                       /\ tasks[t].snap[tasks[t].idx].uid = c

\* C1: while the guards are kept, an item never gets a second successor, and
\* an item a later scan has passed over because of the guard, whose own scan
\* has left create_recurring_task with no failure and found no item to adopt,
\* has exactly one successor.
C1_OneSuccessor ==
    env.restarts = 0 =>
        \A c \in Uids :
            /\ Cardinality(successors(c)) <= 1
            /\ ( /\ "skipped" \in tags_of(items, c)
                 /\ "adopted" \notin tags_of(items, c)
                 /\ env.failures = 0
                 /\ ~creating(c) )
               => Cardinality(successors(c)) = 1

\* a second scan has passed over an item that has its one successor
C1_Witness ==
    /\ env.restarts = 0
    /\ env.failures = 0
    /\ \E c \in Uids : /\ "skipped" \in tags_of(items, c)
                       /\ Cardinality(successors(c)) = 1

\* an execution of process_new_todo_item stands between the add and the
\* discard of the guard
InGuard(tasks, t) == tasks[t].pc \in {"get_items", "update_item"}

\* C2: at most one execution of process_new_todo_item stands between the add
\* and the discard of the guard, and an execution that finds the guard held
\* returns with no host call (list and events as they were) and leaves the
\* guard in place.
C2_OneExecution ==
    [][ /\ Cardinality({t \in Tasks : InGuard(proc', t)}) <= 1
        /\ \A t \in Tasks :
              ( /\ proc[t].pc = "start"
                /\ proc'[t].pc # "start"
                /\ Entity \in PROCESSING_LOCKS
                /\ env'.restarts = env.restarts )
              => /\ proc'[t] = IdleProc
                 /\ Entity \in PROCESSING_LOCKS'
                 /\ UNCHANGED <<items, events>> ]_vars

\* a second execution has found the guard held and returned while the first
\* is still inside
C2_Witness ==
    /\ env.aborted
    /\ \E t \in Tasks : InGuard(proc, t)
    /\ Entity \in PROCESSING_LOCKS

\* C3: the guard is held only while an execution stands between the add and
\* the discard: every way out of that region, a failed host call included,
\* has discarded it.
C3_GuardFreed == Entity \in PROCESSING_LOCKS => \E t \in Tasks : InGuard(proc, t)

\* a host call of process_new_todo_item has failed and the guard is free
C3_Witness ==
    /\ env.proc_failed
    /\ env.failures >= 1
    /\ Entity \notin PROCESSING_LOCKS
    /\ \A t \in Tasks : proc[t].pc = "idle"

\* the live item the host resolves an update_item request to (0: none)
target(req) == HostFind(items, req.item)

\* C4: every update_item that new-item detection has issued rewrites an item
\* that has no due date (so an item the integration has dated, a successor
\* included, is never rewritten).
C4_NeverRedated ==
    \A t \in Tasks :
        (proc[t].pc = "update_item" /\ target(proc[t].req) # 0)
        => items[target(proc[t].req)].due.fmt = ""

\* C6: no failure leaves a background task: a task whose host call has
\* failed ends inside its own handler.
C6_NothingPropagates ==
    \A t \in Tasks : proc[t].pc # "raised" /\ scan[t].pc # "raised"

\* a host call has failed and every task has ended
C6_Witness ==
    /\ env.failures >= 1
    /\ \A t \in Tasks : proc[t].pc = "idle" /\ scan[t].pc = "idle"

\* a scan task takes its last step (a restart is not a step of the task)
ScanEnds(t) ==
    /\ scan[t].pc \notin {"idle", "get_items"}
    /\ scan'[t].pc \in {"idle", "raised"}
    /\ env'.restarts = env.restarts

successor_live(t, list) ==
    \E i \in 1..Len(list) : /\ list[i].src = current(t).uid
                            /\ list[i].status # "completed"
                            /\ list[i].summary = scan[t].new_summary

C9_CleanupScheduled ==
    \A k \in NEWLY_CREATED_RECURRING_TASKS :
        \/ \E n \in 1..Len(timers) : timers[n] = k
        \/ \E t \in Tasks : scan[t].pc = "add_item" /\ task_key(scan[t].new_summary) = k

(***************************************************************************)
(* The chain of work one external event starts, with every host call       *)
(* answered and nothing else happening: no user, no restart.               *)
(***************************************************************************)
InitChain ==
    /\ matched = [s \in Titles |-> title_analysis(s)]
    /\ check = NoCheck
    /\ items \in {WithUids(l) : l \in InitLists}
    /\ PROCESSING_LOCKS = {}
    /\ PROCESSED_COMPLETED_ITEMS = {}
    /\ NEWLY_CREATED_RECURRING_TASKS = {}
    /\ settings \in SettingsChoices
    /\ env = [failures |-> MaxFaults, user |-> MaxUserOps, restarts |-> 0,
              count_attr |-> FALSE, proc_failed |-> FALSE, aborted |-> FALSE]
    /\ events = <<state_changed(items, items)>>
    /\ timers = <<>>
    /\ proc = [t \in Tasks |-> IdleProc]
    /\ scan = [t \in Tasks |-> IdleScan]

\* the steps of one execution of process_new_todo_item; in this chain the
\* host refuses no call (no title a request names leaves the list before the
\* call), so the handlers of failed calls take no step
ProcStep(t) ==
    \/ ProcStart(t)
    \/ ProcGetItems(t)
    \/ ProcUpdate(t)

\* the steps of one completion scan
ScanStep(t) ==
    \/ ScanGetItems(t)
    \/ ScanFind(t)
    \/ ScanUpdateExisting(t)
    \/ ScanAdd(t)
    \/ ScanStrip(t)

NextChain ==
    \/ Listener
    \/ \E t \in Tasks : ProcStep(t)
    \/ \E t \in Tasks : ScanStep(t)
    \/ Timer

\* the event loop runs every task that can take a step, delivers every
\* waiting event and fires every timer
SpecChain ==
    /\ InitChain
    /\ [][NextChain]_vars
    /\ WF_vars(Listener)
    /\ WF_vars(Timer)
    /\ \A t \in Tasks : WF_vars(ProcStep(t)) /\ WF_vars(ScanStep(t))

\* every host call of the chain is accepted
ChainAccepted ==
    \A t \in Tasks :
        /\ proc[t].pc = "update_item" => HostAccepts(items, proc[t].req)
        /\ scan[t].pc = "update_existing" => HostAccepts(items, existing_request(t))
        /\ scan[t].pc = "strip" => HostAccepts(items, strip_request(t))

\* no event waits and no task is in flight
Quiescent ==
    /\ events = <<>>
    /\ \A t \in Tasks : proc[t].pc = "idle" /\ scan[t].pc = "idle"

\* C5: the chain of self-triggered work ends: from some point on no event
\* waits and no task is in flight, so no further host call is issued.
C5_ChainEnds == <>[]Quiescent

(***************************************************************************)
(* The repeat token on its way from a completed item to its successor:     *)
(* parsed by the scan, written back by create_recurring_task, parsed again *)
(* when the successor is completed.                                        *)
(***************************************************************************)
machine == <<items, PROCESSING_LOCKS, PROCESSED_COMPLETED_ITEMS,
             NEWLY_CREATED_RECURRING_TASKS, settings, events, timers, proc, scan, env,
             matched>>

\* the list, the guards and the tasks at rest
AtRest ==
    /\ matched = [s \in Titles |-> title_analysis(s)]
    /\ items = <<>>
    /\ PROCESSING_LOCKS = {}
    /\ PROCESSED_COMPLETED_ITEMS = {}
    /\ NEWLY_CREATED_RECURRING_TASKS = {}
    /\ settings = [auto_due_parsing |-> TRUE, process_recurring |-> TRUE,
                   enable_smart_lists |-> FALSE]
    /\ events = <<>>
    /\ timers = <<>>
    /\ proc = [t \in Tasks |-> IdleProc]
    /\ scan = [t \in Tasks |-> IdleScan]
    /\ env = [failures |-> 0, user |-> 0, restarts |-> 0, count_attr |-> FALSE,
              proc_failed |-> FALSE, aborted |-> FALSE]

\* the bracketed tokens the check draws
Tokens ==
    {<<"[">> \o b \o <<"]">> :
        b \in UNION {[1..n -> {"1", "2", "w", "-", "m", "f", "d"}] : n \in 1..MaxBody}}

InitRepeat ==
    /\ AtRest
    /\ check \in {[pc |-> "token", token |-> k, rule |-> NoRule, written |-> <<>>,
                   reparsed |-> NoRule] : k \in Tokens}

\* the scan parses the token of the completed item
RepeatParse ==
    /\ check.pc = "token"
    /\ check' = [check EXCEPT !.rule = parse_repeat_pattern(check.token),
                              !.pc = IF parse_repeat_pattern(check.token) = NoRule
                                     THEN "rejected" ELSE "parsed"]
    /\ UNCHANGED machine

\* create_recurring_task writes the token of the successor
RepeatWrite ==
    /\ check.pc = "parsed"
    /\ check' = [check EXCEPT !.written = reconstruct_repeat_pattern(check.rule),
                              !.pc = "written"]
    /\ UNCHANGED machine

\* the successor's token is parsed when the successor is completed
RepeatReparse ==
    /\ check.pc = "written"
    /\ check' = [check EXCEPT !.reparsed = parse_repeat_pattern(check.written),
                              !.pc = "reparsed"]
    /\ UNCHANGED machine

NextRepeat ==
    \/ RepeatParse
    \/ RepeatWrite
    \/ RepeatReparse

SpecRepeat == InitRepeat /\ [][NextRepeat]_vars

\* C10: for every token parse_repeat_pattern accepts, the token written into
\* the successor parses to the same rule (type, unit, interval, days).
C10_SameRule == check.pc = "reparsed" => check.reparsed = check.rule

(***************************************************************************)
(* The first occurrence of a weekday-set rule, computed when an item with  *)
(* a repeat token and no date is added.                                    *)
(***************************************************************************)
\* the weekday-set rules drawn: any letters in any order, repeated or not
WeekdayRules ==
    {[type |-> "advanced", unit |-> "w", interval |-> n, days |-> DaysOf(s)] :
        n \in 1..MaxInterval, s \in UNION {[1..k -> DayLetters] : k \in 1..MaxDays}}

\* midnights from Monday 2025-06-16 on
Dates == {AddDays(DateTime(2025, 6, 16, 0, 0), k) : k \in 0..(Window - 1)}

InitFirst ==
    /\ AtRest
    /\ check \in {[pc |-> "today", today |-> d, rule |-> r, result |-> NoDate] :
                    d \in Dates, r \in WeekdayRules}

\* process_new_todo_item asks for the first occurrence
FirstOccurrence ==
    /\ check.pc = "today"
    /\ check' = [check EXCEPT !.result = calculate_first_occurrence(check.today, check.rule),
                              !.pc = "first"]
    /\ UNCHANGED machine

SpecFirst == InitFirst /\ [][FirstOccurrence]_vars

\* the name of the weekday of a date
day_name(dt) == <<"mon", "tue", "wed", "thu", "fri", "sat", "sun">>[weekday(dt) + 1]

\* the date falls on one of the days of the rule
on_rule_day(dt, rule) == \E i \in 1..Len(rule.days) : rule.days[i] = day_name(dt)

\* C11: for every weekday-set rule and every today, the first occurrence is
\* the earliest date on or after today whose weekday is in the set (today
\* itself when it matches), whatever the interval of the rule.
C11_FirstMatchingDay ==
    check.pc = "first" =>
        \E k \in 0..6 :
            /\ check.result = Some(AddDays(check.today, k))
            /\ on_rule_day(AddDays(check.today, k), check.rule)
            /\ \A j \in 0..(k - 1) : ~on_rule_day(AddDays(check.today, j), check.rule)

\* a Saturday, a rule of every third week on Monday and Friday: the first
\* occurrence is the Monday two days on, not three weeks on
C11_Witness ==
    /\ check.pc = "first"
    /\ check.rule.interval = 3
    /\ check.rule.days = <<"fri", "mon">>
    /\ day_name(check.today) = "sat"
    /\ check.result = Some(AddDays(check.today, 2))

(***************************************************************************)
(* The next occurrence of a rule, computed by create_recurring_task from   *)
(* the completion date and the due date of the completed item.             *)
(***************************************************************************)
\* the simple tokens drawn: a bare unit, or an interval and a unit; 13 months
\* is an interval of more than a year
SimpleTokens ==
    {<<"[", u, "]">> : u \in UnitLetters}
        \cup {<<"[">> \o IntToStr(n) \o <<u, "]">> : n \in 0..MaxInterval, u \in UnitLetters}
        \cup {<<"[", "1", "3", "m", "]">>}

\* the simple rules drawn: what parse_repeat_pattern returns for the tokens
SimpleRules == {parse_repeat_pattern(k) : k \in SimpleTokens} \ {NoRule}

\* runs of consecutive midnights: over 29 February 2024, over the middle of
\* June 2025, over the turn of the year 2025
Runs ==
    {{AddDays(first, k) : k \in 0..(Window - 1)} :
        first \in {DateTime(2024, 2, 26, 0, 0), DateTime(2025, 6, 16, 0, 0),
                   DateTime(2025, 12, 25, 0, 0)}}

\* a completion date at a time of day, a due date and a rule
Completed(c, h, d, r) ==
    [pc |-> "completed", completion |-> [c EXCEPT !.hour = h[1], !.minute = h[2]],
     due |-> d, rule |-> r, result |-> NoDate]

\* simple rules on the dates of every run, weekday-set rules on the dates of
\* the run of June, which holds every pair of weekdays
InitNext ==
    /\ AtRest
    /\ \E h \in {<<0, 0>>, <<14, 30>>} :
          \/ \E run \in Runs : \E c \in run, d \in run, r \in SimpleRules :
                 check = Completed(c, h, d, r)
          \/ \E c \in Dates, d \in Dates, r \in WeekdayRules :
                 check = Completed(c, h, d, r)

\* create_recurring_task asks for the next occurrence
NextOccurrence ==
    /\ check.pc = "completed"
    /\ check' = [check EXCEPT
                    !.result = schedule_next_occurrence(check.completion, check.due, check.rule),
                    !.pc = "next"]
    /\ UNCHANGED machine

SpecNext == InitNext /\ [][NextOccurrence]_vars

\* a is an earlier moment than b
earlier(a, b) ==
    \/ DayNumber(a) < DayNumber(b)
    \/ DayNumber(a) = DayNumber(b) /\ a.hour * 60 + a.minute < b.hour * 60 + b.minute

\* the date that anchors a month, year or weekday-set rule: the due date of
\* an item completed early or on time, the completion date of a late one
anchor_date(c) ==
    IF DayNumber(c.completion) <= DayNumber(c.due) THEN Midnight(c.due)
    ELSE Midnight(c.completion)

\* C12: for every simple day or week rule parse_repeat_pattern returns and
\* every completion date and due date, the next occurrence is the completion
\* date at midnight plus interval days (weeks), whatever the due date, and
\* is strictly later than the completion date.
C12_FromCompletion ==
    (check.pc = "next" /\ check.rule.type = "simple" /\ check.rule.unit \in {"d", "w"}) =>
        /\ check.result =
               Some(AddDays(Midnight(check.completion),
                            check.rule.interval * (IF check.rule.unit = "w" THEN 7 ELSE 1)))
        /\ earlier(check.completion, check.result.dt)

\* C13: for every simple month rule with interval n >= 1, the next
\* occurrence is 23:59 on the last day of the month n months after the month
\* of the anchor date (the due date when completed early or on time, the
\* completion date when late), the year advanced as the months pass December.
C13_EndOfMonth ==
    (check.pc = "next" /\ check.rule.type = "simple" /\ check.rule.unit = "m"
                       /\ check.rule.interval >= 1) =>
        LET months == anchor_date(check).year * 12 + (anchor_date(check).month - 1)
                          + check.rule.interval
            dt == check.result.dt
        IN  /\ check.result.kind = "date"
            /\ dt.year = months \div 12
            /\ dt.month = (months % 12) + 1
            /\ AddDays(dt, 1).day = 1
            /\ dt.hour = 23 /\ dt.minute = 59

\* completed late on 1 January 2026 for a due date in December 2025, every
\* 13 months: the last day of February 2027
C13_Witness ==
    /\ check.pc = "next"
    /\ check.rule = [type |-> "simple", unit |-> "m", interval |-> 13, days |-> <<>>]
    /\ check.due.month = 12
    /\ check.completion.month = 1
    /\ check.result = Some(DateTime(2027, 2, 28, 23, 59))

\* C14: for every simple year rule and every pair of valid dates, leap days
\* included, the next occurrence is a date: the anchor date with its year
\* advanced by the interval, same month and day.
C14_SameDayLaterYear ==
    (check.pc = "next" /\ check.rule.type = "simple" /\ check.rule.unit = "y") =>
        /\ check.result.kind = "date"
        /\ check.result.dt.year = anchor_date(check).year + check.rule.interval
        /\ check.result.dt.month = anchor_date(check).month
        /\ check.result.dt.day = anchor_date(check).day

\* the first day of the sorted weekday set after weekday number w, or the
\* first day of the set when none is later in the week
next_in_set(rule, w) ==
    LET tw == {n \in 0..6 : \E i \in 1..Len(rule.days) :
                   rule.days[i] = <<"mon", "tue", "wed", "thu", "fri", "sat", "sun">>[n + 1]}
        after == {n \in tw : n > w}
    IN  IF after # {} THEN least(after) ELSE least(tw)

\* C15: for every weekday-set rule, the weekday of the next occurrence is
\* the first day of the sorted set strictly after the anchor weekday (the
\* first day of the set when none is left in the week); the anchor is the
\* weekday of the due date when completed early or on time, and the weekday
\* of the completion date when completed late.
C15_NextAfterAnchor ==
    (check.pc = "next" /\ check.rule.type = "advanced") =>
        /\ check.result.kind = "date"
        /\ weekday(check.result.dt) = next_in_set(check.rule, weekday(anchor_date(check)))

(***************************************************************************)
(* parse_repeat_pattern applied to tokens written in every form of the     *)
(* grammar, and to forms next to it.                                       *)
(***************************************************************************)
\* what stands after 'w-', or alone between the brackets: day letters and x
LetterStrings == UNION {[1..k -> DayLetters \cup {"x"}] : k \in 0..MaxDays}

\* the numbers of a form: none written, or 0..MaxInterval written
Numbers ==
    {[written |-> FALSE, n |-> 1]} \cup {[written |-> TRUE, n |-> n] : n \in 0..MaxInterval}

\* unit: <n><u>;  days: <n>w-<letters>;  short: <letters>;  free: any text
Forms ==
    {[kind |-> "unit", number |-> c, unit |-> u, letters |-> <<>>] :
        c \in Numbers, u \in UnitLetters \cup {"x", "h"}}
    \cup {[kind |-> k, number |-> c, unit |-> "w", letters |-> l] :
        k \in {"days"}, c \in Numbers, l \in LetterStrings}
    \cup {[kind |-> k, number |-> [written |-> FALSE, n |-> 1], unit |-> "w", letters |-> l] :
        k \in {"short"}, l \in LetterStrings}
    \cup {[kind |-> k, number |-> [written |-> FALSE, n |-> 1], unit |-> "", letters |-> l] :
        k \in {"free"}, l \in UNION {[1..j -> {"2", "w", "-", "m", " ", "x"}] : j \in 1..MaxBody}}

\* how a form is written: in capitals or not, blanks inside the brackets or
\* not, and which of the two brackets are there
Styles == [upper : BOOLEAN, pad : BOOLEAN, wrap : {"both", "left", "right", "none"}]

Upper(c) ==
    IF \E i \in 1..26 : LowerCase[i] = c
    THEN UpperCase[CHOOSE i \in 1..26 : LowerCase[i] = c]
    ELSE c

\* the token of a form in a style
token_of(form, style) ==
    LET number == IF form.number.written THEN IntToStr(form.number.n) ELSE <<>>
        text == CASE form.kind = "unit" -> number \o <<form.unit>>
                  [] form.kind = "days" -> number \o <<"w", "-">> \o form.letters
                  [] OTHER -> form.letters
        cased == IF style.upper THEN [i \in 1..Len(text) |-> Upper(text[i])] ELSE text
        padded == IF style.pad THEN <<" ">> \o cased \o <<" ">> ELSE cased
    IN  (IF style.wrap \in {"both", "left"} THEN <<"[">> ELSE <<>>)
            \o padded
            \o (IF style.wrap \in {"both", "right"} THEN <<"]">> ELSE <<>>)

InitParse ==
    /\ AtRest
    /\ check \in {[pc |-> "token", token |-> token_of(f, st), form |-> f, style |-> st,
                   rule |-> NoRule] :
                    f \in Forms, st \in Styles}

\* the repeat token of a title is parsed
ParseToken ==
    /\ check.pc = "token"
    /\ check' = [check EXCEPT !.rule = parse_repeat_pattern(check.token), !.pc = "parsed"]
    /\ UNCHANGED machine

SpecParse == InitParse /\ [][ParseToken]_vars

\* the weekdays of a string of day letters, by m,t,w,r,f,s,u -> Mon..Sun
days_of_letters(l) ==
    [i \in 1..Len(l) |->
        <<"mon", "tue", "wed", "thu", "fri", "sat", "sun">>[
            CHOOSE j \in 1..7 : <<"m", "t", "w", "r", "f", "s", "u">>[j] = l[i]]]

only_day_letters(l) == \A i \in 1..Len(l) : l[i] \in {"m", "t", "w", "r", "f", "s", "u"}

\* the interval a form stands for
interval_of(form) == form.number.n

valid_letters(l) == SelectSeq(l, LAMBDA c : c \in {"m", "t", "w", "r", "f", "s", "u"})

\* C17 as claimed: for a token [w-<letters>] or [<n>w-<letters>] in which
\* some letters are not day letters, the letters that are not recognized are
\* dropped and the result is a weekday-set rule over the day letters that
\* remain; the result is null only when no day letter remains.
C17_LettersDropped ==
    (check.pc = "parsed" /\ check.form.kind = "days" /\ check.style.wrap = "both"
                         /\ ~only_day_letters(check.form.letters)) =>
        IF valid_letters(check.form.letters) = <<>> THEN check.rule = NoRule
        ELSE check.rule = [type |-> "advanced", unit |-> "w",
                           interval |-> interval_of(check.form),
                           days |-> days_of_letters(valid_letters(check.form.letters))]

\* C17: for a token [w-<letters>] or [<n>w-<letters>] in which some letters
\* are not day letters, the result is null, whether or not day letters
\* remain: one unrecognized letter makes the whole token invalid.
C17_TokenRejected ==
    (check.pc = "parsed" /\ check.form.kind = "days" /\ check.style.wrap = "both"
                         /\ ~only_day_letters(check.form.letters)) =>
        check.rule = NoRule

\* [2w-mx]: Monday is a day letter, x is not, and no rule is returned
C17_Witness ==
    /\ check.pc = "parsed"
    /\ check.token = <<"[", "2", "w", "-", "m", "x", "]">>
    /\ check.rule = NoRule

\* C18: every rule parse_repeat_pattern returns, for every token, has an
\* interval of at least 1, and every weekday-set rule it returns has unit
\* week and a non-empty list of weekdays.
C18_RuleWellFormed ==
    (check.pc = "parsed" /\ check.rule # NoRule) =>
        /\ check.rule.interval >= 1
        /\ check.rule.type = "advanced" =>
               (check.rule.unit = "w" /\ check.rule.days # <<>>)

\* the token [w-s] written in the style of the token [s] under check
explicit_token == token_of([check.form EXCEPT !.kind = "days"], check.style)

\* C19 as claimed: for every non-empty string s of day letters, [s] parses
\* to the same rule content (weekday set, unit week, interval 1, same days)
\* as [w-s].
C19_ShorthandAlways ==
    (check.pc = "parsed" /\ check.form.kind = "short" /\ check.style.wrap = "both"
                         /\ check.form.letters # <<>>
                         /\ only_day_letters(check.form.letters)) =>
        /\ check.rule = parse_repeat_pattern(explicit_token)
        /\ check.rule = [type |-> "advanced", unit |-> "w", interval |-> 1,
                         days |-> days_of_letters(check.form.letters)]

\* C19: for every non-empty string s of day letters other than the single
\* letters m and w, which are the month and the week unit, [s] parses to the
\* same rule content (weekday set, unit week, interval 1, same days) as
\* [w-s].
C19_Shorthand ==
    (check.pc = "parsed" /\ check.form.kind = "short" /\ check.style.wrap = "both"
                         /\ check.form.letters # <<>>
                         /\ only_day_letters(check.form.letters)
                         /\ check.form.letters \notin {<<"m">>, <<"w">>}) =>
        /\ check.rule = parse_repeat_pattern(explicit_token)
        /\ check.rule = [type |-> "advanced", unit |-> "w", interval |-> 1,
                         days |-> days_of_letters(check.form.letters)]

\* [wm]: Wednesday and Monday, as [w-wm]
C19_Witness ==
    /\ check.pc = "parsed"
    /\ check.token = <<"[", "w", "m", "]">>
    /\ check.rule = parse_repeat_pattern(<<"[", "w", "-", "w", "m", "]">>)
    /\ check.rule.days = <<"wed", "mon">>

(***************************************************************************)
(* The title of a new item, taken apart by process_new_todo_item.          *)
(***************************************************************************)
\* the words titles are drawn from: name words, connectors, a time, dates of
\* one and of two words, a number, two repeat tokens and a bracketed word
\* that is no repeat token
Vocabulary ==
    { <<"c", "a", "l", "l">>, <<"s", "i", "c", "k">>, <<"i", "n">>, <<"a", "t">>,
      <<"9", ":", "3", "0">>, <<"t", "o", "m", "o", "r", "r", "o", "w">>,
      <<"5">>, <<"d", "a", "y", "s">>, <<"1", "2">>, <<"[", "d", "]">>,
      <<"[", "w", "-", "f", "]">>, <<"[", "x", "]">> }

\* the titles drawn: up to MaxWords words, and one title of the documentation
NewTitles ==
    {Join(ws) : ws \in UNION {[1..n -> Vocabulary] : n \in 1..MaxWords}}
        \cup {Join(<< <<"g", "y", "m">>, <<"w", "o", "r", "k", "o", "u", "t">>,
                       <<"[", "w", "-", "m", "w", "f", "]">> >>)}

\* a list that holds one new item with the title and no due value; calls are
\* the update_item requests issued
InitTitle ==
    /\ AtRest
    /\ check \in {[pc |-> "title", title |-> k, summary_split |-> <<>>, plan |-> NoPlan,
                   list |-> <<Item(1, k, NoDue, "needs_action", 0)>>, calls |-> <<>>] :
                    k \in NewTitles}

\* process_new_todo_item on an item with this title: the candidate test,
\* then the fields of the title
ExtractTitle ==
    /\ check.pc = "title"
    /\ \E words \in {Split(remove_date_prefixes(check.title))} :
       \E found \in {pattern_in_words(words)} :
          check' = [check EXCEPT
                      !.summary_split = words,
                      !.plan = IF found = "yes" THEN fields_of_words(words)
                               ELSE IF found = "raise" THEN ErrorPlan ELSE NoPlan,
                      !.pc = "extracted"]
    /\ UNCHANGED machine

\* update_item with the fields of the title; a due value the host cannot
\* read makes the call raise, and the list stays as it is
TitleUpdate ==
    /\ check.pc = "extracted"
    /\ check.plan.act = "update"
    /\ \E req \in {rewrite_of(check.list[1], check.plan).req} :
          check' = [check EXCEPT
                      !.calls = Append(@, req),
                      !.list = IF HostAccepts(check.list, req)
                               THEN HostUpdate(check.list, req) ELSE @,
                      !.pc = "updated"]
    /\ UNCHANGED machine

\* no candidate, no date in the title, or a matcher that raised: the task
\* ends without a call
TitleReturn ==
    /\ check.pc = "extracted"
    /\ check.plan.act # "update"
    /\ check' = [check EXCEPT !.pc = "returned"]
    /\ UNCHANGED machine

NextTitle ==
    \/ ExtractTitle
    \/ TitleUpdate
    \/ TitleReturn

SpecTitle == InitTitle /\ [][NextTitle]_vars

\* the title made of the first k words and the token
leading_words(words, k, token) == Strip(Join(SubSeq(words, 1, k)) \o <<" ">> \o token)

\* C20: for every title new-item detection rewrites, the new title is a
\* leading run of the words of the normalized title, what is left after at
\* most one repeat token, one time with its 'at' or '@' and one date of one
\* or two words are taken from the end, followed only by the repeat token
\* if there is one; no word inside the task name is removed or reordered.
C20_LeadingWords ==
    (check.pc = "extracted" /\ check.plan.act = "update") =>
        LET words == check.summary_split
            n == Len(words)
            token == IF IsBracketed(words[n]) THEN words[n] ELSE <<>>
            named == IF token = <<>> THEN n ELSE n - 1
        IN  \E k \in 0..named :
                /\ named - k <= 4
                /\ check.plan.rename = leading_words(words, k, token)

\* the last word of the normalized title
last_word == check.summary_split[Len(check.summary_split)]

\* the number of words before the bracketed last word, if there is one
named_words == Len(check.summary_split) - (IF IsBracketed(last_word) THEN 1 ELSE 0)

\* the last of them is one of the drawn words that read as a time
time_before_last ==
    /\ named_words >= 1
    /\ check.summary_split[named_words] \in {<<"9", ":", "3", "0">>, <<"1", "2">>}

\* C21: when the last word of a new item's title is a valid repeat token, the
\* due date of the rewrite is calculate_first_occurrence(today, rule)
\* whatever date phrase the title also contains, the time of the rewrite is
\* the time token before the repeat token if there is one and 23:59
\* otherwise, and the repeat token is kept at the end of the new title.
C21_RuleOverridesText ==
    (check.pc = "extracted" /\ IsBracketed(last_word)
                            /\ parse_repeat_pattern(last_word) # NoRule) =>
        /\ check.plan.act = "update"
        /\ Some(check.plan.date) = calculate_first_occurrence(Today, parse_repeat_pattern(last_word))
        /\ check.plan.time = IF time_before_last
                             THEN check.summary_split[named_words]
                             ELSE <<"2", "3", ":", "5", "9">>
        /\ Split(check.plan.rename)[Len(Split(check.plan.rename))] = last_word

\* 'call tomorrow [w-f]' on Tuesday 2025-06-17: due on Friday the 20th, not
\* on the 18th
C21_Witness ==
    /\ check.pc = "extracted"
    /\ check.summary_split = << <<"c", "a", "l", "l">>, <<"t", "o", "m", "o", "r", "r", "o", "w">>,
                                <<"[", "w", "-", "f", "]">> >>
    /\ check.plan.act = "update"
    /\ check.plan.date = DateTime(2025, 6, 20, 0, 0)
    /\ check.plan.time = <<"2", "3", ":", "5", "9">>

\* the number of words the time takes up, with its 'at'
time_words ==
    IF ~time_before_last THEN 0
    ELSE IF named_words >= 2 /\ check.summary_split[named_words - 1] = <<"a", "t">>
    THEN 2 ELSE 1

\* the date the words before the repeat token and the time end in:
\* 'tomorrow', or 'days' after a word that ends in a number ('5', '12', and
\* '9:30', of which the matcher reads the 30); NoDate when they end in no date
text_date ==
    LET words == check.summary_split
        m == named_words - time_words
    IN  IF m >= 1 /\ words[m] = <<"t", "o", "m", "o", "r", "r", "o", "w">>
        THEN Some(AddDays(Today, 1))
        ELSE IF m >= 2 /\ words[m] = <<"d", "a", "y", "s">> /\ words[m - 1] = <<"5">>
        THEN Some(AddDays(Today, 5))
        ELSE IF m >= 2 /\ words[m] = <<"d", "a", "y", "s">> /\ words[m - 1] = <<"1", "2">>
        THEN Some(AddDays(Today, 12))
        ELSE IF m >= 2 /\ words[m] = <<"d", "a", "y", "s">> /\ words[m - 1] = <<"9", ":", "3", "0">>
        THEN Some(AddDays(Today, 30))
        ELSE NoDate

\* C23: when the last word of a title is a bracketed token that
\* parse_repeat_pattern rejects, no first occurrence is computed from it, but
\* the time and the date before it are still extracted: with a date before
\* it the item is rewritten with that date from the text, otherwise the item
\* is left untouched.
C23_RejectedToken ==
    (check.pc = "extracted" /\ IsBracketed(last_word)
                            /\ parse_repeat_pattern(last_word) = NoRule) =>
        IF text_date = NoDate THEN check.plan.act = "none"
        ELSE /\ check.plan.act = "update"
             /\ Some(check.plan.date) = text_date
             /\ check.plan.time = IF time_before_last
                                  THEN check.summary_split[named_words]
                                  ELSE <<"2", "3", ":", "5", "9">>

\* 'tomorrow 9:30 [x]': rewritten for the 18th at 9:30
C23_Witness ==
    /\ check.pc = "extracted"
    /\ check.summary_split = << <<"t", "o", "m", "o", "r", "r", "o", "w">>, <<"9", ":", "3", "0">>,
                                <<"[", "x", "]">> >>
    /\ check.plan.act = "update"
    /\ check.plan.date = DateTime(2025, 6, 18, 0, 0)
    /\ check.plan.time = <<"9", ":", "3", "0">>

\* C22: when the title of the selected item yields neither a valid repeat
\* rule nor a trailing date, the pass issues no update_item, add_item or
\* remove_item: the list is left exactly as fetched.
C22_LeftUntouched ==
    (/\ check.pc \in {"extracted", "updated", "returned"}
     /\ ~(IsBracketed(last_word) /\ parse_repeat_pattern(last_word) # NoRule)
     /\ text_date = NoDate) =>
        /\ check.pc # "updated"
        /\ check.calls = <<>>
        /\ check.list = <<Item(1, check.title, NoDue, "needs_action", 0)>>

\* 'tomorrow call' is selected for its date word, which is not at the end:
\* the task returns
C22_Witness ==
    /\ check.pc = "returned"
    /\ check.summary_split = << <<"t", "o", "m", "o", "r", "r", "o", "w">>, <<"c", "a", "l", "l">> >>
    /\ check.calls = <<>>

\* the due_date field of a request, NoDate when the request has none
due_date_of(req) == IF req.due.fmt = "date" THEN Some(req.due.dt) ELSE NoDate

\* the due_datetime field of a request as <<date, time>>, <<>> when the
\* request has none
due_datetime_of(req) == IF req.due.fmt = "space" THEN <<req.due.dt, req.due.time>> ELSE <<>>

gym_workout == Join(<< <<"g", "y", "m">>, <<"w", "o", "r", "k", "o", "u", "t">>,
                       <<"[", "w", "-", "m", "w", "f", "]">> >>)

\* the first occurrence of the rule of the last word
first_of_last_word == calculate_first_occurrence(Today, parse_repeat_pattern(last_word)).dt

\* C24 as claimed: for a new item 'gym workout [w-mwf]' created on Tuesday
\* 2025-06-17 the request to update_item is rename 'gym workout [w-mwf]' with
\* due_date 2025-06-18 and due_datetime 2025-06-18 23:59, both fields
\* present; in general a rewrite for a weekday-set item carries the first
\* occurrence both as due_date and as due_datetime at 23:59.
C24_BothDueFields ==
    (check.pc = "updated" /\ IsBracketed(last_word)
                          /\ parse_repeat_pattern(last_word).type = "advanced") =>
        /\ check.title = gym_workout =>
              /\ check.calls[1].rename = gym_workout
              /\ first_of_last_word = DateTime(2025, 6, 18, 0, 0)
        /\ due_date_of(check.calls[1]) = Some(first_of_last_word)
        /\ due_datetime_of(check.calls[1]) = <<first_of_last_word, <<"2", "3", ":", "5", "9">>>>

\* C24: for a new item 'gym workout [w-mwf]' created on Tuesday 2025-06-17
\* the request to update_item is rename 'gym workout [w-mwf]' with
\* due_datetime 2025-06-18 23:59 and no due_date field; in general a rewrite
\* for a weekday-set item carries the first occurrence as due_datetime only,
\* at 23:59 when no time token precedes the repeat token.
C24_DueDatetimeOnly ==
    (check.pc = "updated" /\ IsBracketed(last_word)
                          /\ parse_repeat_pattern(last_word).type = "advanced") =>
        /\ check.title = gym_workout =>
              /\ check.calls[1].rename = gym_workout
              /\ first_of_last_word = DateTime(2025, 6, 18, 0, 0)
        /\ due_date_of(check.calls[1]) = NoDate
        /\ Len(due_datetime_of(check.calls[1])) = 2
        /\ due_datetime_of(check.calls[1])[1] = first_of_last_word
        /\ ~time_before_last =>
              due_datetime_of(check.calls[1])[2] = <<"2", "3", ":", "5", "9">>

\* the request for 'gym workout [w-mwf]'
C24_Witness ==
    /\ check.pc = "updated"
    /\ check.title = gym_workout
    /\ check.calls = <<UpdateRequest(gym_workout, TRUE, gym_workout, "needs_action",
                                     DueDateTime(DateTime(2025, 6, 18, 0, 0),
                                                 <<"2", "3", ":", "5", "9">>))>>

(***************************************************************************)
(* The completion scan on one completed item: create_recurring_task adds   *)
(* the successor, the scan takes the token off the completed item, and a   *)
(* later scan with empty guard sets reads the list the host then holds.    *)
(***************************************************************************)
\* the scans of one run: the scan that promotes and the later scans
MaxScans == 2

pay_rent == Join(<< <<"p", "a", "y">>, <<"r", "e", "n", "t">> >>)

\* the last words of the completed items drawn
PromoteTokens ==
    {<<"[", "m", "]">>, <<"[", "2", "m", "]">>, <<"[", "1", "3", "m", "]">>,
     <<"[", "d", "]">>, <<"[", "2", "w", "]">>, <<"[", "w", "-", "m", "w", "f", "]">>,
     <<"[", "x", "]">>}

\* a title ends with one token, or with a month token and a day token
PromoteTitles ==
    {pay_rent \o <<" ">> \o k : k \in PromoteTokens}
        \cup {pay_rent \o <<" ", "[", "m", "]", " ", "[", "d", "]">>}

\* the days the scan runs on and the days the completed items are due
PromoteDays ==
    {DateTime(2025, 6, 17, 0, 0), DateTime(2025, 7, 10, 0, 0), DateTime(2025, 7, 15, 0, 0),
     DateTime(2025, 11, 30, 0, 0), DateTime(2025, 12, 31, 0, 0)}

\* the due values of the host: a date, or a date and a time of day
PromoteDues ==
    {DueDate(d) : d \in PromoteDays}
        \cup {DueIso([d EXCEPT !.hour = h[1], !.minute = h[2]]) :
                 d \in PromoteDays, h \in {<<0, 0>>, <<9, 0>>, <<23, 59>>}}

\* the due values of a live item that already has the successor's title
LiveDues == {NoDue, DueDate(DateTime(2025, 8, 31, 0, 0))}

\* the completed item alone, or followed by a live item of the successor's title
InitPromote ==
    /\ AtRest
    /\ \E c \in PromoteDays, k \in PromoteTitles, d \in PromoteDues :
       \E list \in {<<Item(1, k, d, "completed", 0)>>}
                      \cup {<<Item(1, k, d, "completed", 0),
                               Item(2, successor_summary(k), e, "needs_action", 0)>> :
                                e \in LiveDues} :
          check = [pc |-> "scan", today |-> c, title |-> k, due |-> d, scans |-> 1,
                   idx |-> 0, list |-> list, calls |-> <<>>, alone |-> Len(list) = 1]

\* the tests of the scan's loop on one item, the guard set being empty
scan_handles(item) ==
    /\ item.status = "completed"
    /\ Len(item.summary) > 0
    /\ first_bracketed(item.summary) # <<>>
    /\ parse_repeat_pattern(first_bracketed(item.summary)) # NoRule
    /\ item.due.fmt # ""

\* the first item of the list the loop handles, 0 if none
handled_index(list) ==
    LET Q == {i \in 1..Len(list) : scan_handles(list[i])}
    IN  IF Q = {} THEN 0 ELSE MinOf(Q)

\* the title and the due value create_recurring_task gives the successor
successor_of(today, item) ==
    LET repeat_info == parse_repeat_pattern(first_bracketed(item.summary))
        time_string == time_string_of(item.due)
        next_date == schedule_next_occurrence(today, item.due.dt, repeat_info)
    IN  [made |-> next_date.kind = "date",
         new_summary |-> successor_summary(item.summary),
         due |-> IF time_string # <<>>
                 THEN DueDateTime(next_date.dt, time_string)
                 ELSE DueDate(next_date.dt)]

\* a request to add_item, written with the fields of a request to update_item
AddRequest(summary, due) == UpdateRequest(summary, FALSE, <<>>, "needs_action", due)

\* create_recurring_task for the item the loop stands at: the successor is
\* added, or the due date of a live item of its title is brought up to date
PromoteCreate ==
    /\ check.pc = "scan"
    /\ handled_index(check.list) # 0
    /\ \E i \in {handled_index(check.list)} :
       \E next \in {successor_of(check.today, check.list[i])} :
       \E existing \in {duplicate_index(check.list, next.new_summary)} :
       \E req \in {IF existing # 0
                   THEN UpdateRequest(next.new_summary, FALSE, <<>>,
                                      check.list[existing].status, next.due)
                   ELSE AddRequest(next.new_summary, next.due)} :
          check' =
            IF ~next.made THEN [check EXCEPT !.pc = "created", !.idx = i]
            ELSE IF existing # 0
            THEN IF same_due_text(check.list[existing].due, next.due)
                 THEN [check EXCEPT !.pc = "created", !.idx = i]
                 ELSE [check EXCEPT
                          !.pc = "created", !.idx = i,
                          !.calls = Append(@, req),
                          !.list = IF HostAccepts(@, req) THEN HostUpdate(@, req) ELSE @]
            ELSE [check EXCEPT
                     !.pc = "created", !.idx = i,
                     !.calls = Append(@, req),
                     !.list = HostAdd(@, next.new_summary, next.due, check.list[i].uid)]
    /\ UNCHANGED machine

\* the loop finds no item to handle
PromoteSkip ==
    /\ check.pc = "scan"
    /\ handled_index(check.list) = 0
    /\ check' = [check EXCEPT !.pc = "done"]
    /\ UNCHANGED machine

\* the update that takes the token off the completed item
cleanup_request(item) ==
    UpdateRequest(item.summary, TRUE, original_summary_of(item.summary), "completed", NoDue)

PromoteStrip ==
    /\ check.pc = "created"
    /\ \E req \in {cleanup_request(check.list[check.idx])} :
          check' = [check EXCEPT
                       !.calls = Append(@, req),
                       !.list = IF HostAccepts(@, req) THEN HostUpdate(@, req) ELSE @,
                       !.pc = "done"]
    /\ UNCHANGED machine

\* a later scan, after a restart has emptied the guard sets
LaterScan ==
    /\ check.pc = "done"
    /\ check.scans < MaxScans
    /\ check' = [check EXCEPT !.pc = "scan", !.scans = @ + 1]
    /\ UNCHANGED machine

NextPromote == PromoteCreate \/ PromoteSkip \/ PromoteStrip \/ LaterScan

SpecPromote == InitPromote /\ [][NextPromote]_vars

\* the item the first scan handled, as drawn
promoted == Item(1, check.title, check.due, "completed", 0)

\* the successors of that item in the list
made_for_promoted == {i \in 1..Len(check.list) : check.list[i].src = 1}

\* the month the rule of the title aims at: the interval added to the month
\* of the due date when completed early or on time, of the scan's day when late
target_month ==
    LET rule == parse_repeat_pattern(first_bracketed(check.title))
        from == IF DayNumber(check.today) <= DayNumber(check.due.dt) THEN check.due.dt
                ELSE check.today
        months == from.year * 12 + (from.month - 1) + rule.interval
    IN  [year |-> months \div 12, month |-> (months % 12) + 1]

\* the first scan is over for a completed item with a month rule and no
\* live item of the successor's title
month_rule_promoted ==
    /\ check.pc = "done" /\ check.scans = 1 /\ check.alone
    /\ parse_repeat_pattern(first_bracketed(check.title)).type = "simple"
    /\ parse_repeat_pattern(first_bracketed(check.title)).unit = "m"

\* C25: when the completion scan promotes a completed item carrying a simple
\* month rule, the successor is added with the same task name and repeat
\* token and is due on the last day of the target month at 23:59, for every
\* form of the completed item's due value (date-only or with any time of day).
C25_SuccessorEndOfMonth ==
    month_rule_promoted =>
        /\ made_for_promoted = {2}
        /\ check.list[2].summary = check.title
        /\ check.list[2].status = "needs_action"
        /\ check.list[2].due = DueIso(EndOfMonth(target_month.year, target_month.month))

\* 'pay rent [m]' due 2025-07-15 without a time and completed 2025-07-10:
\* the successor is due 2025-08-31 without a time
C25_DateOnly ==
    /\ month_rule_promoted
    /\ check.title = pay_rent \o <<" ", "[", "m", "]">>
    /\ check.today = DateTime(2025, 7, 10, 0, 0)
    /\ check.due = DueDate(DateTime(2025, 7, 15, 0, 0))
    /\ check.list[2].summary = check.title
    /\ check.list[2].due = DueDate(DateTime(2025, 8, 31, 0, 0))
    /\ check.calls[1] = AddRequest(check.title, DueDate(DateTime(2025, 8, 31, 0, 0)))

\* the words of a title other than its first bracketed word
words_without_token(summary) ==
    SelectSeq(Split(summary), LAMBDA w : w # first_bracketed(summary))

\* the requests of the run that rename an item
renames == SelectSeq(check.calls, LAMBDA req : req.has_rename)

\* C29: after the completion scan has handled a completed recurring item it
\* issues one update for that item that renames it to its title without the
\* repeat token, keeps its status completed and sets no due field; a later
\* scan of a list that reflects this update creates no successor for that
\* item, even with empty guard sets.
C29_NeverReconsidered ==
    (check.pc = "done" /\ scan_handles(promoted)) =>
        /\ check.scans = 1 =>
              /\ Len(renames) = 1
              /\ renames[1].item = check.title
              /\ Split(renames[1].rename) = words_without_token(check.title)
              /\ renames[1].status = "completed"
              /\ renames[1].due = NoDue
              /\ check.list[1].summary = renames[1].rename
        /\ check.scans > 1 => made_for_promoted \subseteq {2}

\* 'pay rent [m] [d]': the first scan leaves 'pay rent  [d]', and the later
\* scan adds 'pay rent [d]' for the same completed item
C29_SecondToken ==
    /\ check.pc = "done" /\ check.scans = 2
    /\ check.title = pay_rent \o <<" ", "[", "m", "]", " ", "[", "d", "]">>
    /\ Len(check.list) = 3
    /\ check.list[1].summary = pay_rent
    /\ check.list[3].summary = pay_rent \o <<" ", "[", "d", "]">>
    /\ check.list[3].src = 1

(***************************************************************************)
(* One act of the user on a list of live items, and the work its event     *)
(* starts, under every setting of the entity's toggles and of the smart    *)
(* lists, with and without a count attribute on the entity's state.  No    *)
(* smart list is configured (the options default to ""), so the smart-list *)
(* steps of the tasks read the list and change nothing.                    *)
(***************************************************************************)
EventSettings ==
    [auto_due_parsing : BOOLEAN, process_recurring : BOOLEAN, enable_smart_lists : BOOLEAN]

\* lists of live items
LiveLists ==
    {l \in InitLists : \A i \in 1..Len(l) : l[i].status = "needs_action"}

InitEvent ==
    /\ matched = [s \in Titles |-> title_analysis(s)]
    /\ check = NoCheck
    /\ items \in {WithUids(l) : l \in LiveLists}
    /\ PROCESSING_LOCKS = {}
    /\ PROCESSED_COMPLETED_ITEMS = {}
    /\ NEWLY_CREATED_RECURRING_TASKS = {}
    /\ settings \in EventSettings
    /\ env \in {[failures |-> MaxFaults, user |-> 0, restarts |-> 0, count_attr |-> c,
                 proc_failed |-> FALSE, aborted |-> FALSE] : c \in BOOLEAN}
    /\ events = <<>>
    /\ timers = <<>>
    /\ proc = [t \in Tasks |-> IdleProc]
    /\ scan = [t \in Tasks |-> IdleScan]

\* the user adds an item without a due date
UserAdd(s) ==
    /\ env.user < MaxUserOps
    /\ env' = [env EXCEPT !.user = @ + 1]
    /\ items' = Append(items, Item(Len(items) + 1, s, NoDue, "needs_action", 0))
    /\ events' = raise_event(events, state_changed(items, items'))
    /\ UNCHANGED <<guards, fixed, timers, proc, scan>>

\* the user removes the last item
UserRemove ==
    /\ env.user < MaxUserOps
    /\ Len(items) > 0
    /\ env' = [env EXCEPT !.user = @ + 1]
    /\ items' = SubSeq(items, 1, Len(items) - 1)
    /\ events' = raise_event(events, state_changed(items, items'))
    /\ UNCHANGED <<guards, fixed, timers, proc, scan>>

NextEvent ==
    \/ Listener
    \/ \E t \in Tasks : ProcStep(t)
    \/ \E t \in Tasks : ScanStep(t)
    \/ Timer
    \/ \E s \in Summaries : UserAdd(s)
    \/ UserRemove
    \/ \E i \in 1..Len(items) : UserComplete(i)
    \/ HostEvent

\* the event loop runs every task that can take a step, delivers every
\* waiting event and fires every timer; the user is free to do nothing
SpecEvent ==
    /\ InitEvent
    /\ [][NextEvent]_vars
    /\ WF_vars(Listener)
    /\ WF_vars(Timer)
    /\ \A t \in Tasks : WF_vars(ProcStep(t)) /\ WF_vars(ScanStep(t))

\* the listener takes the waiting event off the queue
event_delivered == Len(events) > 0 /\ events' = Tail(events)

\* the listener starts a task
task_started ==
    \/ \E t \in Tasks : proc[t].pc = "idle" /\ proc'[t].pc = "start"
    \/ \E t \in Tasks : scan[t].pc = "idle" /\ scan'[t].pc = "get_items"

\* C26 as claimed: when the old state carries an item count, the listener
\* starts reconciliation tasks if and only if the new count is strictly
\* greater than the old count; an unchanged or decreased count starts none.
C26_StartsIffGrown ==
    [][ (event_delivered /\ Head(events).old # NoCount) =>
            (task_started <=> Head(events).new > Head(events).old) ]_vars

\* C26: when the old state carries an item count, the listener starts
\* reconciliation tasks only if the new count is strictly greater than the
\* old count, and it does start them for a greater count when auto due-date
\* parsing or smart lists are enabled and the entity is not in
\* PROCESSING_LOCKS; an unchanged or decreased count starts no task.
C26_StartsOnlyIfGrown ==
    [][ (event_delivered /\ Head(events).old # NoCount) =>
            /\ task_started => Head(events).new > Head(events).old
            /\ ( /\ Head(events).new > Head(events).old
                 /\ settings.auto_due_parsing \/ settings.enable_smart_lists
                 /\ Entity \notin PROCESSING_LOCKS ) => task_started ]_vars

\* the state carries a count, the user has added an item, and the listener
\* has started the tasks for the event of the grown count
C26_Witness ==
    /\ env.count_attr
    /\ env.user = 1
    /\ events = <<>>
    /\ \E t \in Tasks : proc[t].pc = "start"
    /\ Len(items) >= 1
    /\ items[Len(items)].due = NoDue
    /\ \A i \in 1..Len(items) : items[i].tags = {} /\ items[i].status = "needs_action"

\* C27: for an entity whose auto due-date parsing toggle is off, no
\* state-change event leads new-item detection to rewrite the title or the
\* due date of an item, whatever the other toggles and the smart-list setting.
C27_OffMeansNoRewrite ==
    ~settings.auto_due_parsing =>
        /\ \A i \in 1..Len(items) : "rewritten" \notin items[i].tags
        /\ \A t \in Tasks : proc[t].pc # "update_item"

\* C27 with smart lists disabled
C27_OffAndNoSmartLists ==
    (~settings.auto_due_parsing /\ ~settings.enable_smart_lists) =>
        /\ \A i \in 1..Len(items) : "rewritten" \notin items[i].tags
        /\ \A t \in Tasks : proc[t].pc = "idle"

\* the user has marked item c completed, and it carries a rule and a due date
completed_recurring(c) == c <= Len(items) /\ carries_rule(items[c])

\* item c has its successor: an item created for it, or a live item of the
\* successor's title that create_recurring_task took for it
has_successor(c) ==
    \/ successors(c) # {}
    \/ tags_of(items, c) \cap {"adopted", "found_successor"} # {}

\* C28: with recurrence processing enabled, the event of an item being
\* marked completed starts a completion scan, so a completed recurring item
\* eventually gets its successor with no further item added to the list,
\* whatever the auto due-date parsing toggle.
C28_CompletionPromotes ==
    \A c \in 1..MaxInit :
        (settings.process_recurring /\ completed_recurring(c)) ~> has_successor(c)

\* C28 for a list of items with different titles, a state without a count
\* attribute and a listener that goes on
C28_WhenListenerGoesOn ==
    \A c \in 1..MaxInit :
        ( /\ settings.process_recurring /\ completed_recurring(c)
          /\ \A i, j \in 1..Len(items) : items[i].summary = items[j].summary => i = j
          /\ ~env.count_attr
          /\ settings.auto_due_parsing \/ settings.enable_smart_lists )
            ~> has_successor(c)

(***************************************************************************)
(* The three parsers on a string: check_date_format, check_time_format and *)
(* parse_natural_language_date.                                            *)
(***************************************************************************)
\* amounts of a duration, up to amounts that carry today past the year 9999
Amounts ==
    {<<"5">>, <<"1", "2">>, <<"7", "0", "0", "0">>, <<"8", "0", "0", "0">>,
     <<"2", "9", "1", "2", "0", "0", "0">>, <<"2", "9", "1", "3", "0", "0", "0">>,
     <<"3", "0", "0", "0", "0", "0", "0">>}

\* the units of a duration as written
UnitWords ==
    {<<"d">>, <<"d", "a", "y">>, <<"d", "a", "y", "s">>,
     <<"w">>, <<"w", "e", "e", "k">>, <<"w", "e", "e", "k", "s">>,
     <<"m">>, <<"m", "o", "n", "t", "h">>, <<"m", "o", "n", "t", "h", "s">>,
     <<"y">>, <<"y", "e", "a", "r">>, <<"y", "e", "a", "r", "s">>}

\* durations, and strings that are dates, times or neither
GivenStrings ==
    {a \o sp \o u : a \in Amounts, sp \in {<<>>, <<" ">>}, u \in UnitWords}
        \cup {<<"t", "o", "d", "a", "y">>, <<"T", "o", "m", "o", "r", "r", "o", "w">>,
              <<"2", "0", "2", "5", "-", "0", "6", "-", "2", "0">>,
              <<"6", "/", "2", "0", "/", "2", "5">>,
              <<"3", "1", ".", "0", "2", ".", "2", "0", "2", "5">>,
              <<"9", ":", "3", "0">>, <<"2", "5", ":", "0", "0">>, <<"1", "2">>,
              <<"c", "a", "l", "l">>, <<>>}

InitDate ==
    /\ AtRest
    /\ check \in {[pc |-> "string", given_string |-> s, result |-> NoDate, parsed |-> FALSE] :
                    s \in GivenStrings}

CheckDateFormat ==
    /\ check.pc = "string"
    /\ check' = [check EXCEPT !.pc = "check_date_format",
                              !.result = check_date_format(check.given_string)]
    /\ UNCHANGED machine

\* a time that parses is an answer, one that does not is None
CheckTimeFormat ==
    /\ check.pc = "string"
    /\ check' = [check EXCEPT !.pc = "check_time_format",
                              !.parsed = check_time_format(check.given_string)]
    /\ UNCHANGED machine

ParseNaturalLanguageDate ==
    /\ check.pc = "string"
    /\ check' = [check EXCEPT !.pc = "parse_natural_language_date",
                              !.result = parse_natural_language_date(check.given_string)]
    /\ UNCHANGED machine

NextDate == CheckDateFormat \/ CheckTimeFormat \/ ParseNaturalLanguageDate

SpecDate == InitDate /\ [][NextDate]_vars

\* C30: check_date_format, check_time_format and parse_natural_language_date
\* return a date/time or null for every input string and never raise, also
\* for a duration whose amount carries today past the representable dates.
C30_NeverRaises ==
    check.pc \in {"check_date_format", "check_time_format", "parse_natural_language_date"} =>
        check.result.kind \in {"date", "none"}

\* '8000y': today plus 8000 * 365 days is past the year 9999
C30_Overflow ==
    /\ check.pc = "check_date_format"
    /\ check.given_string = <<"8", "0", "0", "0", "y">>
    /\ check.result = Raised

\* the durations that stay within the representable dates are parsed
C30_InRange ==
    /\ check.pc = "parse_natural_language_date"
    /\ check.given_string = <<"7", "0", "0", "0", "y">>
    /\ check.result = Some(DateTime(9020, 10, 24, 0, 0))

\* the string is a duration phrase as drawn: an amount, a blank or none, a unit
is_duration_phrase(s) ==
    \E a \in Amounts, sp \in {<<>>, <<" ">>}, u \in UnitWords : s = a \o sp \o u

\* the days a duration phrase stands for: n, 7n, 30n or 365n
days_of_phrase(s) ==
    LET a == CHOOSE x \in Amounts :
                 \E sp \in {<<>>, <<" ">>}, u \in UnitWords : s = x \o sp \o u
        u == CHOOSE x \in UnitWords : \E sp \in {<<>>, <<" ">>} : s = a \o sp \o x
        per == CASE u[1] = "d" -> 1 [] u[1] = "w" -> 7 [] u[1] = "m" -> 30 [] u[1] = "y" -> 365
    IN  StrToInt(a) * per

\* C31: for every integer n and every unit, all spellings of the duration
\* phrase ('<n>d', '<n> d', '<n>day', '<n> day', '<n>days', '<n> days', and
\* likewise for week, month, year) parse to the same date: today at midnight
\* plus n, 7n, 30n or 365n days.
C31_SpellingsAgree ==
    (check.pc = "parse_natural_language_date" /\ is_duration_phrase(check.given_string)) =>
        check.result = Some(AddDays(Today, days_of_phrase(check.given_string)))

\* C31 for the amounts that keep the date within the year 9999
C31_SpellingsAgreeInRange ==
    ( /\ check.pc = "parse_natural_language_date"
      /\ is_duration_phrase(check.given_string)
      /\ DayNumber(Today) + days_of_phrase(check.given_string)
             <= DaysFromCivil(9999, 12, 31) ) =>
        check.result = Some(AddDays(Today, days_of_phrase(check.given_string)))

(***************************************************************************)
(* remove_date_prefixes on a title made of a name, a connector, a date     *)
(* phrase and trailing time and repeat tokens.                             *)
(***************************************************************************)
\* task names; the last one ends in the letters of the connector word
PrefixNames ==
    {<<"w", "a", "s", "h">>,
     <<"b", "r", "u", "s", "h", " ", "t", "h", "e", " ", "d", "o", "g">>,
     <<"b", "e", "g", "i", "n">>}

\* ': in ', ': ' and ' in ' before the phrase, or only a blank
Connectors ==
    {<<":", " ", "i", "n", " ">>,
     <<":", " ">>,
     <<" ", "i", "n", " ">>,
     <<" ">>}

\* today, tomorrow, durations, absolute dates check_date_format reads
DatePhrases ==
    {<<"t", "o", "d", "a", "y">>,
     <<"T", "o", "m", "o", "r", "r", "o", "w">>,
     <<"5", "d">>,
     <<"5", " ", "d", "a", "y", "s">>,
     <<"2", "0", "2", "5", "-", "1", "2", "-", "2", "5">>,
     <<"1", "2", "/", "2", "5", "/", "2", "5">>,
     <<"2", "5", ".", "1", "2", ".", "2", "0", "2", "5">>,
     <<"2", "0", "2", "5", ".", "1", "2", ".", "2", "5">>}

\* what follows the phrase: nothing, a time, a repeat token, both
TrailingTokens ==
    {<<>>,
     <<" ", "@", " ", "1", "5", ":", "0", "0">>,
     <<" ", "[", "1", "w", "]">>,
     <<" ", "9", ":", "3", "0", " ", "[", "d", "]">>}

InitPrefix ==
    /\ AtRest
    /\ check \in {[pc |-> "title", name |-> n, connector |-> c, phrase |-> p, trailing |-> t,
                   summary |-> n \o c \o p \o t, result |-> <<>>] :
                     n \in PrefixNames, c \in Connectors, p \in DatePhrases,
                     t \in TrailingTokens}

RemoveDatePrefixes ==
    /\ check.pc = "title"
    /\ check' = [check EXCEPT !.pc = "cleaned", !.result = remove_date_prefixes(check.summary)]
    /\ UNCHANGED machine

SpecPrefix == InitPrefix /\ [][RemoveDatePrefixes]_vars

\* C32: a title '<name>: in <phrase>', '<name>: <phrase>' or '<name> in
\* <phrase>' (phrase today, tomorrow, a duration or an absolute date, then
\* optional time and repeat tokens) comes back as '<name> <phrase>' plus the
\* trailing tokens, without the connector, without a dangling colon and with
\* single blanks; a title with no connector word before the date phrase
\* comes back unchanged.
C32_ConnectorRemoved ==
    check.pc = "cleaned" =>
        check.result = IF check.connector = <<" ">> THEN check.summary
                       ELSE check.name \o <<" ">> \o check.phrase \o check.trailing

\* C32 for a name that does not end in 'in' and a phrase that one of the
\* date_patterns or the natural-language pattern matches
C32_OtherNames ==
    ( /\ check.pc = "cleaned"
      /\ check.name # <<"b", "e", "g", "i", "n">>
      /\ check.phrase # <<"2", "0", "2", "5", ".", "1", "2", ".", "2", "5">> ) =>
        check.result = IF check.connector = <<" ">> THEN check.summary
                       ELSE check.name \o <<" ">> \o check.phrase \o check.trailing

\* 'begin 5d' comes back as 'beg 5d'
C32_InsideWord ==
    /\ check.pc = "cleaned"
    /\ check.summary = <<"b", "e", "g", "i", "n", " ", "5", "d">>
    /\ check.result = <<"b", "e", "g", " ", "5", "d">>

\* 'wash in 2025.12.25' comes back unchanged
C32_DottedYearFirst ==
    /\ check.pc = "cleaned"
    /\ check.summary = <<"w", "a", "s", "h", " ", "i", "n", " ", "2", "0", "2", "5", ".", "1", "2", ".", "2", "5">>
    /\ check.result = check.summary

\* C38: for every weekday-set rule with interval >= 1 and every pair of a
\* completion date and an original due date, schedule_next_occurrence
\* returns a date strictly after the completion date whose weekday belongs
\* to the rule's weekday set.
C38_LaterOnRuleDay ==
    (check.pc = "next" /\ check.rule.type = "advanced" /\ check.rule.interval >= 1) =>
        /\ check.result.kind = "date"
        /\ DayNumber(check.result.dt) > DayNumber(check.completion)
        /\ weekday(check.result.dt) \in target_weekdays(check.rule)

\* weekly on Monday and Tuesday, due Monday 2025-06-16 and completed late on
\* Tuesday 2025-06-17: the next occurrence is Tuesday 2025-06-24
C38_Witness ==
    /\ check.pc = "next"
    /\ check.rule.type = "advanced" /\ check.rule.interval = 1
    /\ target_weekdays(check.rule) = {0, 1}
    /\ Midnight(check.due) = DateTime(2025, 6, 16, 0, 0)
    /\ Midnight(check.completion) = DateTime(2025, 6, 17, 0, 0)
    /\ check.result = Some(DateTime(2025, 6, 24, 0, 0))

(***************************************************************************)
(* One execution of process_new_todo_item, one rewrite.                    *)
(***************************************************************************)
\* the positions of the live list that the candidate loop appends: no due
\* date, not a successor just created, and a date-like or repeat word
loop_appends ==
    {i \in 1..Len(items) : /\ items[i].due.fmt = ""
                           /\ task_key(items[i].summary) \notin NEWLY_CREATED_RECURRING_TASKS
                           /\ matched[items[i].summary].pattern = "yes"}

\* the positions at which the host's fields differ before and after a step
changed_positions ==
    {i \in 1..Len(items) : i > Len(items') \/ View(items')[i] # View(items)[i]}

\* C35: an execution of process_new_todo_item prepares its update_item
\* request from the fetched list for the first candidate in host order and
\* for no other; the call is its last one (the task ends with it), it changes
\* at most one item, and the task touches the list at no other step.
C35_OneRewritePerExecution ==
    [][\A t \in Tasks :
         /\ (proc[t].pc # "update_item" /\ proc'[t].pc = "update_item") =>
                /\ proc[t].pc = "get_items"
                /\ loop_appends # {}
                /\ proc'[t].uid = items[MinOf(loop_appends)].uid
                /\ proc'[t].req.item = items[MinOf(loop_appends)].summary
                /\ proc'[t].req.has_rename
                /\ proc'[t].req.due.fmt # ""
                /\ items' = items
         /\ (proc[t].pc = "update_item" /\ proc'[t] # proc[t]) =>
                /\ proc'[t] = IdleProc
                /\ Len(items') = Len(items)
                /\ Cardinality(changed_positions) <= 1
         /\ (proc[t].pc \in {"start", "get_items"} /\ proc'[t] # proc[t]) =>
                View(items') = View(items)]_vars

\* a list with two candidates, of which the task has rewritten the first and
\* ended, the second keeping its title and no due date
C35_Witness ==
    /\ Len(items) = 2
    /\ "rewritten" \in items[1].tags
    /\ items[1].due.fmt # ""
    /\ items[2].due.fmt = ""
    /\ matched[items[2].summary].pattern = "yes"
    /\ \A t \in Tasks : proc[t].pc = "idle"
    /\ env.failures = 0 /\ env.restarts = 0

(***************************************************************************)
(* A failed add_item during the promotion of a completed item.             *)
(***************************************************************************)
\* add_item failed for the item with uid c: create_recurring_task failed
\* without having found an item of the successor's title
add_item_failed(list, c) ==
    /\ "create_failed" \in tags_of(list, c)
    /\ tags_of(list, c) \cap {"adopted", "found_successor"} = {}

\* the item with uid c as get_items returns it
viewed(c) == View(items)[CHOOSE i \in 1..Len(items) : items[i].uid = c]

\* C36: a completed recurring item for which add_item failed, once its scan
\* has moved on, is still one that a later scan promotes: it carries its
\* repeat token and a due date and its key is not in the processed guard.
C36_StaysEligible ==
    \A c \in Uids :
        (add_item_failed(items, c) /\ ~handling(scan, c) /\ successors(c) = {}) =>
            qualifies(viewed(c), PROCESSED_COMPLETED_ITEMS)

\* what the code does instead: with no restart in between, an item for
\* which add_item failed never gets a successor
C36_NeverRetried ==
    [][\A c \in Uids :
          (add_item_failed(items, c) /\ env'.restarts = 0) => successors(c)' = {}]_vars

(***************************************************************************)
(* Completion scans running side by side.                                  *)
(***************************************************************************)
\* the non-completed items of the list that a scan created under the title s
live_successors_titled(s) ==
    {i \in 1..Len(items) : /\ items[i].src # 0
                           /\ items[i].status # "completed"
                           /\ items[i].summary = s}

\* C37: with every host call answered and no restart, once the completion
\* scans of the entity have finished the list holds at most one non-completed
\* item created as successor under any one title, two completed items of the
\* same title included.
C37_OneLiveSuccessor ==
    ( /\ \A t \in Tasks : scan[t].pc = "idle"
      /\ env.failures = 0 /\ env.restarts = 0 ) =>
        \A s \in Titles : Cardinality(live_successors_titled(s)) <= 1

(***************************************************************************)
(* New-item detection on a list that holds a title with a date word that   *)
(* is not at its end, under triggers that never stop.                      *)
(***************************************************************************)
today_dog == <<"t", "o", "d", "a", "y", " ", "d", "o", "g">>

dog_5d == <<"d", "o", "g", " ", "5", "d">>

\* 'today dog' passes the candidate filter (the word 'today') and the field
\* extractor finds no date at its end; 'dog 5d' is rewritten to 'dog'
BlockSummaries == {today_dog, dog_5d}

BlockTitles == BlockSummaries \cup {<<"d", "o", "g">>}

BlockLists ==
    UNION {[1..n -> {[summary |-> s, due |-> d, status |-> "needs_action"] :
                        s \in BlockSummaries, d \in InitDues}] : n \in 0..MaxInit}

InitBlock ==
    /\ matched = [s \in BlockTitles |-> title_analysis(s)]
    /\ check = NoCheck
    /\ items \in {WithUids(l) : l \in BlockLists}
    /\ PROCESSING_LOCKS = {}
    /\ PROCESSED_COMPLETED_ITEMS = {}
    /\ NEWLY_CREATED_RECURRING_TASKS = {}
    /\ settings = [auto_due_parsing |-> TRUE, process_recurring |-> FALSE,
                   enable_smart_lists |-> FALSE]
    /\ env = [failures |-> MaxFaults, user |-> 0, restarts |-> 0, count_attr |-> FALSE,
              proc_failed |-> FALSE, aborted |-> FALSE]
    /\ events = <<>>
    /\ timers = <<>>
    /\ proc = [t \in Tasks |-> IdleProc]
    /\ scan = [t \in Tasks |-> IdleScan]

\* one more state change of the entity reaches the listener; the old state
\* carries no count, so the listener takes it as a trigger (lines 1098-1108)
Trigger ==
    /\ Len(events) < MaxEvents
    /\ events' = Append(events, state_changed(items, items))
    /\ UNCHANGED <<items, guards, fixed, timers, proc, scan, env>>

NextBlock ==
    \/ Trigger
    \/ Listener
    \/ \E t \in Tasks : ProcStep(t)

\* triggers keep coming, every event is delivered, every task runs on
SpecBlock ==
    /\ InitBlock
    /\ [][NextBlock]_vars
    /\ WF_vars(Trigger)
    /\ WF_vars(Listener)
    /\ \A t \in Tasks : WF_vars(ProcStep(t))

\* the item at position i has no due date and the field extractor yields a
\* date from its title
yields_date(i) ==
    /\ i <= Len(items)
    /\ items[i].due.fmt = ""
    /\ matched[items[i].summary].fields.act = "update"

\* an item before position i has no due date, passes the candidate filter
\* and yields no date
blocked_at(i) ==
    \E j \in 1..(i - 1) : /\ j <= Len(items)
                          /\ items[j].due.fmt = ""
                          /\ matched[items[j].summary].pattern = "yes"
                          /\ matched[items[j].summary].fields.act # "update"

\* C34: an item without a due date whose title yields a date is rewritten
\* after finitely many triggers, whatever stands before it in the list.
C34_EventuallyRewritten ==
    \A i \in 1..MaxInit : yields_date(i) ~> (i <= Len(items) /\ items[i].due.fmt # "")

\* C34 for the items no such earlier item stands before
C34_UnblockedRewritten ==
    \A i \in 1..MaxInit :
        (yields_date(i) /\ ~blocked_at(i)) ~> (i <= Len(items) /\ items[i].due.fmt # "")

\* what the code does to the others: an item behind a candidate that yields
\* no date keeps its title and stays without a due date for ever
C34_BlockedForEver ==
    [][\A i \in 1..Len(items) :
          (yields_date(i) /\ blocked_at(i)) => items'[i] = items[i]]_vars

(***************************************************************************)
(* An item added while a new-item reconciliation of the entity is under    *)
(* way, on a host whose state carries the item count.                      *)
(***************************************************************************)
\* lists of live items of different titles, at most one of them undated
GuardLists ==
    {l \in LiveLists : /\ \A i, j \in 1..Len(l) : l[i].summary = l[j].summary => i = j
                       /\ Cardinality({i \in 1..Len(l) : l[i].due.fmt = ""}) <= 1}

\* the entity's state has just been announced (no old state), which starts
\* the first reconciliation; from then on only the user raises events
InitGuard ==
    /\ matched = [s \in Titles |-> title_analysis(s)]
    /\ check = NoCheck
    /\ items \in {WithUids(l) : l \in GuardLists}
    /\ PROCESSING_LOCKS = {}
    /\ PROCESSED_COMPLETED_ITEMS = {}
    /\ NEWLY_CREATED_RECURRING_TASKS = {}
    /\ settings = [auto_due_parsing |-> TRUE, process_recurring |-> FALSE,
                   enable_smart_lists |-> FALSE]
    /\ env = [failures |-> MaxFaults, user |-> 0, restarts |-> 0, count_attr |-> TRUE,
              proc_failed |-> FALSE, aborted |-> FALSE]
    /\ events = <<[old |-> NoCount, new |-> Len(items)]>>
    /\ timers = <<>>
    /\ proc = [t \in Tasks |-> IdleProc]
    /\ scan = [t \in Tasks |-> IdleScan]

\* a reconciliation holds the guard and has fetched its snapshot
snapshot_taken == \E t \in Tasks : proc[t].pc = "update_item"

\* the user adds an undated item under a title no item of the list carries;
\* the host raises the state change with the count grown by one. The item
\* is marked with what the list's reconciliation was doing at that moment.
UserAddsItem(s) ==
    /\ env.user < MaxUserOps
    /\ Len(events) < MaxEvents
    /\ \A i \in 1..Len(items) : items[i].summary # s
    /\ env' = [env EXCEPT !.user = @ + 1]
    /\ items' = Tag(Append(items, Item(Len(items) + 1, s, NoDue, "needs_action", 0)),
                    Len(items) + 1, IF snapshot_taken THEN "added_during" ELSE "added")
    /\ events' = Append(events, state_changed(items, items'))
    /\ UNCHANGED <<guards, fixed, timers, proc, scan>>

NextGuard ==
    \/ \E s \in Summaries : UserAddsItem(s)
    \/ Listener
    \/ \E t \in Tasks : ProcStep(t)

\* every waiting event is delivered and every task runs on; the user is free
\* to do nothing more
SpecGuard ==
    /\ InitGuard
    /\ [][NextGuard]_vars
    /\ WF_vars(Listener)
    /\ \A t \in Tasks : WF_vars(ProcStep(t))

\* the item at position i was added by the user, with the given mark, and
\* has no due date yet
added_undated(i, mark) ==
    /\ i <= Len(items)
    /\ mark \in items[i].tags
    /\ items[i].due.fmt = ""

\* C33: the event of an added item is followed by a reconciliation whose
\* snapshot is fetched after it: an item added while another reconciliation
\* of the entity holds the processing guard, its snapshot already fetched,
\* is rewritten with no further event from outside.
C33_AddedIsRewritten ==
    \A i \in 1..(MaxInit + MaxUserOps) :
        added_undated(i, "added_during") ~> (i <= Len(items) /\ items[i].due.fmt # "")

\* C33 for an item added while no reconciliation holds the guard and none is
\* about to start
C33_AddedWhileIdle ==
    \A i \in 1..(MaxInit + MaxUserOps) :
        ( /\ added_undated(i, "added")
          /\ Len(events) = 1 /\ Head(events).new > Head(events).old
          /\ Head(events).old # NoCount
          /\ PROCESSING_LOCKS = {}
          /\ \A t \in Tasks : proc[t].pc = "idle" )
            ~> (i <= Len(items) /\ items[i].due.fmt # "")

\* what the listener does with an event that arrives while the guard is held
C33_DroppedWhileGuarded ==
    [][(Len(events) > 0 /\ Entity \in PROCESSING_LOCKS /\ events' = Tail(events))
          => UNCHANGED <<proc, scan>>]_vars

(***************************************************************************)
(* Auto-sort: the call inside process_new_todo_item and the task the       *)
(* listener starts with a delay.                                           *)
(***************************************************************************)
\* get_sort_key: (0, due) for an item with a due value, (1, "") for one
\* without; a due date counts as its midnight
sort_key(item) ==
    IF item.due.fmt = "" THEN <<1, 0, 0>>
    ELSE <<0, DayNumber(item.due.dt), item.due.dt.hour * 60 + item.due.dt.minute>>

key_less(a, b) ==
    \/ a[1] < b[1]
    \/ a[1] = b[1] /\ a[2] < b[2]
    \/ a[1] = b[1] /\ a[2] = b[2] /\ a[3] < b[3]

\* sorted(items, key=get_sort_key): stable, equal keys keep their order
sort_todo_items_by_due_date(list) ==
    LET before(i) == {j \in 1..Len(list) :
                         \/ key_less(sort_key(list[j]), sort_key(list[i]))
                         \/ sort_key(list[j]) = sort_key(list[i]) /\ j < i}
    IN  [r \in 1..Len(list) |->
            list[CHOOSE i \in 1..Len(list) : Cardinality(before(i)) = r - 1]]

summaries_of(list) == [i \in 1..Len(list) |-> list[i].summary]

\* apply_auto_sort_if_enabled on the live list: what the call did and the
\* list it leaves (the moves put the items in sorted order)
apply_auto_sort_if_enabled(list, locks, auto_sort) ==
    IF ~auto_sort THEN [outcome |-> "disabled", list |-> list]
    ELSE IF Entity \in locks THEN [outcome |-> "locked", list |-> list]
    ELSE IF Len(list) <= 1 THEN [outcome |-> "too_few", list |-> list]
    ELSE IF summaries_of(list) = summaries_of(sort_todo_items_by_due_date(list))
    THEN [outcome |-> "in_order", list |-> list]
    ELSE [outcome |-> "reordered", list |-> sort_todo_items_by_due_date(list)]

\* the outcomes in which the call fetched the list
fetched == {"too_few", "in_order", "reordered"}

InitSort ==
    /\ matched = [s \in Titles |-> title_analysis(s)]
    /\ check = [pc |-> "sort", inline |-> "none", delayed |-> "none"]
    /\ items \in {WithUids(l) : l \in LiveLists}
    /\ PROCESSING_LOCKS = {}
    /\ PROCESSED_COMPLETED_ITEMS = {}
    /\ NEWLY_CREATED_RECURRING_TASKS = {}
    /\ settings \in {[auto_due_parsing |-> TRUE, process_recurring |-> FALSE,
                      enable_smart_lists |-> FALSE, auto_sort |-> b] : b \in BOOLEAN}
    /\ env = [failures |-> MaxFaults, user |-> 0, restarts |-> 0, count_attr |-> FALSE,
              proc_failed |-> FALSE, aborted |-> FALSE]
    /\ events = <<startup_event(items)>>
    /\ timers = <<>>
    /\ proc = [t \in Tasks |-> IdleProc]
    /\ scan = [t \in Tasks |-> IdleScan]

\* state_changed_listener with auto_sort: besides process_new_todo_item it
\* starts apply_auto_sort_after_delay (one waiting call is kept)
SortListener ==
    /\ Len(events) > 0
    /\ LET evt == Head(events)
           spawns == /\ settings.auto_due_parsing \/ settings.enable_smart_lists
                     /\ should_process(evt)
                     /\ Entity \notin PROCESSING_LOCKS
       IN  IF ~spawns
           THEN /\ events' = Tail(events)
                /\ UNCHANGED <<proc, check>>
           ELSE /\ FreeProc # {}
                /\ events' = Tail(events)
                /\ proc' = [proc EXCEPT ![MinOf(FreeProc)] = [IdleProc EXCEPT !.pc = "start"]]
                /\ check' = [check EXCEPT
                                !.delayed = IF settings.auto_sort THEN "waiting" ELSE @]
    /\ UNCHANGED <<items, guards, settings, matched, scan, timers, env>>

\* update_item is applied, then the call of apply_auto_sort_if_enabled inside
\* the task, with the guard still held, then finally
ProcUpdateAndSort(t) ==
    /\ proc[t].pc = "update_item"
    /\ HostAccepts(items, proc[t].req)
    /\ LET updated == Tag(HostUpdate(items, proc[t].req),
                          items[HostFind(items, proc[t].req.item)].uid, "rewritten")
       IN  \E sort \in {apply_auto_sort_if_enabled(updated, PROCESSING_LOCKS,
                                                   settings.auto_sort)} :
               /\ items' = sort.list
               /\ check' = [check EXCEPT !.inline = sort.outcome]
               /\ events' = raise_event(events, state_changed(items, updated))
    /\ proc' = [proc EXCEPT ![t] = IdleProc]
    /\ PROCESSING_LOCKS' = finally_discard(PROCESSING_LOCKS)
    /\ UNCHANGED <<PROCESSED_COMPLETED_ITEMS, NEWLY_CREATED_RECURRING_TASKS,
                   settings, matched, timers, scan, env>>

\* apply_auto_sort_after_delay: the sleep is over and the call is made
DelayedSort ==
    /\ check.pc = "sort"
    /\ check.delayed = "waiting"
    /\ \E sort \in {apply_auto_sort_if_enabled(items, PROCESSING_LOCKS, settings.auto_sort)} :
           /\ items' = sort.list
           /\ check' = [check EXCEPT !.delayed = sort.outcome]
           /\ events' = IF sort.outcome = "reordered"
                        THEN raise_event(events, state_changed(items, sort.list))
                        ELSE events
    /\ UNCHANGED <<guards, settings, matched, timers, proc, scan, env>>

NextSort ==
    \/ SortListener
    \/ \E t \in Tasks : ProcStart(t)
    \/ \E t \in Tasks : ProcGetItems(t)
    \/ \E t \in Tasks : ProcUpdateAndSort(t)
    \/ DelayedSort

SpecSort == InitSort /\ [][NextSort]_vars

\* C39: on an entity with auto_sort enabled, the call of
\* apply_auto_sort_if_enabled that follows a rewrite inside
\* process_new_todo_item fetches the entity's items and puts them in order of
\* due date; it is not skipped.
C39_InlineSortCarriedOut ==
    (check.pc = "sort" /\ settings.auto_sort /\ check.inline # "none") =>
        /\ check.inline \in fetched
        /\ summaries_of(items) = summaries_of(sort_todo_items_by_due_date(items))
           \/ \E t \in Tasks : proc[t].pc = "update_item"

\* what the code does: the call inside the task never fetches the list
C39_InlineAlwaysSkipped ==
    check.pc = "sort" => check.inline \in {"none", "disabled", "locked"}

\* the delayed call does reorder a list that a rewrite left out of order
C39_DelayedReorders ==
    /\ check.pc = "sort"
    /\ check.inline = "locked"
    /\ check.delayed = "reordered"
    /\ Len(items) = 2
    /\ "rewritten" \in items[2].tags

=============================================================================
